---- MODULE Spec2Model ----
(***************************************************************************)
(* A model of the baseline JPEG decoder of src/src/jpeg/decoder.rs.        *)
(*                                                                         *)
(* The decoder object is the record `self`; every method of JPEGDecoder is *)
(* an operator that takes the record (and the part of the input stream the *)
(* method reads) and returns the record after the call together with the   *)
(* outcome `res` of the call: "Ok", one of the ImageError kinds, or        *)
(* "Panic" for an unwrap of None, a slice index out of range or a division *)
(* by zero.  The input stream is supplied lazily: each step that reads     *)
(* from `r` takes the bytes (or the fields of a segment) it reads as a     *)
(* nondeterministic input, and "the stream ended" is one of the inputs.    *)
(*                                                                         *)
(* Buffers (mcu, mcu_row, the caller's scanline buffer) are modelled by    *)
(* their lengths and by counters of the writes made to them; quantization  *)
(* and Huffman tables by the set of table slots that have been filled.     *)
(***************************************************************************)
EXTENDS Integers, Sequences, FiniteSets, TLC

(***************************************************************************)
(* Marker codes, decoder.rs lines 62-90.                                   *)
(***************************************************************************)
SOF0 == 192
SOF2 == 194
DHT == 196
RST0 == 208
RST7 == 215
SOI == 216
EOI == 217
SOS == 218
DQT == 219
DNL == 220
DRI == 221
APP0 == 224
APPF == 239
COM == 254
TEM == 1
\* The prefix byte of every marker (the literal 0xFF of read_metadata,
\* find_restart_marker).
MARK == 255
\* A marker code the parser has no arm for (SOF1).
SOF1 == 193

(***************************************************************************)
(* Bounds of the model.                                                    *)
(***************************************************************************)
\* Frame widths are 8 * k pixels for k in 1 .. MaxCols.
MaxCols == 1
\* DC magnitude categories decoded are 0 .. MaxCat.
MaxCat == 1
\* A block is decoded only while the resulting DC value is in 0 .. MaxPred.
MaxPred == 1
\* Restart intervals declared by a DRI segment are 0 .. MaxInterval.
MaxInterval == 2
\* A decoder is driven until it has decoded MaxMcus MCUs.
MaxMcus == 11
\* read_scanline / read_image calls are made while decoded_rows is below this.
MaxCalls == 10
\* In the restart runs, one-component frames are 8 * k pixels wide for k in
\* 1 .. MaxGrayCols and three-component frames for k in 1 .. MaxColorCols.
MaxGrayCols == 10
MaxImageMcus == 2
MaxBmpCols == 3
MaxBmpRows == 2
MaxBmpCut == 2
MaxUpsampleMcus == 2
MaxExtendCat == 6
MaxGrayFactor == 2
MaxRowBlocks == 3
\* A GIF global color table has 2 ^ (size + 1) entries, size in 0 .. MaxGifTableBits.
MaxGifTableBits == 1
\* Background color indices are 0 .. MaxGifIndex.
MaxGifIndex == 4
\* Logical screens are 1 .. MaxGifCols wide and 1 high.
MaxGifCols == 2
MaxColorCols == 2

(***************************************************************************)
(* Arithmetic helpers.                                                     *)
(***************************************************************************)
U16(x) == x % 65536
U8(x) == x % 256
CeilDiv(a, b) == (a + b - 1) \div b
Max2(a, b) == IF a >= b THEN a ELSE b

EmptyMap == [k \in {} |-> 0]
\* VecMap::insert
MapInsert(m, k, v) == [x \in (DOMAIN m) \cup {k} |-> IF x = k THEN v ELSE m[x]]

RECURSIVE MaxOver(_, _)
\* The fold of read_frame_components over a set of numbers, starting at 0.
MaxOver(S, acc) ==
    IF S = {} THEN acc
    ELSE LET x == CHOOSE y \in S : TRUE
         IN MaxOver(S \ {x}, Max2(acc, x))

(***************************************************************************)
(* The decoder after JPEGDecoder::new.                                     *)
(***************************************************************************)
HuffDecoderNew == [bits |-> 0, num_bits |-> 0, end |-> FALSE, marker |-> 0]

JPEGDecoderNew ==
    [ qtables |-> {}, dctables |-> {}, actables |-> {},
      h |-> HuffDecoderNew,
      height |-> 0, width |-> 0,
      num_components |-> 0,
      scan_components |-> << >>,
      components |-> EmptyMap,
      mcu_row |-> 0, mcu |-> 0,
      hmax |-> 0, vmax |-> 0,
      interval |-> 0, mcucount |-> 0, expected_rst |-> RST0,
      row_count |-> 0, decoded_rows |-> 0,
      state |-> "Start",
      padded_width |-> 0 ]

Ret(s, r) == [self |-> s, res |-> r]

(***************************************************************************)
(* read_frame_components.  `inp.comps` are the (id, hv, tq) triples of the *)
(* header; `inp.n` is the number of header fields the stream holds before  *)
(* it ends (length, precision, height, width, count, then one per triple). *)
(***************************************************************************)
RECURSIVE FrameComponentsLoop(_, _, _, _)
FrameComponentsLoop(self, inp, k, n) ==
    IF k > n THEN Ret(self, "Ok")
    ELSE IF inp.n < 5 + k THEN Ret(self, "IoError")
    ELSE LET t == inp.comps[k]
             c == [id |-> t.id, h |-> t.h, v |-> t.v, tq |-> t.tq,
                   dc_table |-> 0, ac_table |-> 0, dc_pred |-> 0]
         IN FrameComponentsLoop(
                [self EXCEPT !.components = MapInsert(@, t.id, c)], inp, k + 1, n)

\* blocks_per_mcu as summed over the n triples read (u8 arithmetic)
RECURSIVE BlocksPerMcu(_, _)
BlocksPerMcu(comps, n) ==
    IF n = 0 THEN 0
    ELSE U8(BlocksPerMcu(comps, n - 1) + comps[n].h * comps[n].v)

read_frame_components(self, n, inp) ==
    LET l == FrameComponentsLoop(self, inp, 1, n)
        s1 == l.self
        hmax == MaxOver({s1.components[k].h : k \in DOMAIN s1.components}, 0)
        vmax == MaxOver({s1.components[k].v : k \in DOMAIN s1.components}, 0)
        s2 == IF n = 1
              THEN [s1 EXCEPT
                      !.components = [k \in DOMAIN s1.components |->
                                        [s1.components[k] EXCEPT !.h = 1, !.v = 1]],
                      !.hmax = 1, !.vmax = 1]
              ELSE [s1 EXCEPT !.hmax = hmax, !.vmax = vmax]
        blocks_per_mcu == IF n = 1 THEN 1 ELSE BlocksPerMcu(inp.comps, n)
        mcu_len == blocks_per_mcu * 64
        \* (width / (8 * hmax)).ceil(): the header's hmax, not self.hmax
        mcus_per_row == IF hmax = 0 THEN 0 ELSE CeilDiv(s1.width, 8 * hmax)
        mcu_row_len == (hmax * vmax) * mcu_len * mcus_per_row
    IN IF l.res # "Ok" THEN l
       ELSE Ret([s2 EXCEPT !.mcu = mcu_len, !.mcu_row = mcu_row_len], "Ok")

(***************************************************************************)
(* read_frame_header                                                       *)
(***************************************************************************)
\* A decoder that does not check the dimensions.
frame_checks_nodim(self) ==
    IF self.num_components # 1 /\ self.num_components # 3 THEN "UnsupportedError"
    ELSE "Ok"

\* the checks of height, width and num_components once they are read
frame_checks(self) ==
    IF self.height = 0 \/ self.width = 0 THEN "DimensionError"
    ELSE IF self.num_components # 1 /\ self.num_components # 3 THEN "UnsupportedError"
    ELSE "Ok"

read_frame_header(self, inp) ==
    LET s1 == [self EXCEPT !.height = inp.height]
        s2 == [s1 EXCEPT !.width = inp.width]
        s3 == [s2 EXCEPT !.num_components = inp.ncomp]
        s4 == [s3 EXCEPT !.padded_width = 8 * ((s3.width + 7) \div 8)]
    IN IF inp.n < 2 THEN Ret(self, "IoError")
       ELSE IF inp.precision # 8 THEN Ret(self, "UnsupportedError")
       ELSE IF inp.n < 3 THEN Ret(self, "IoError")
       ELSE IF inp.n < 4 THEN Ret(s1, "IoError")
       ELSE IF inp.n < 5 THEN Ret(s2, "IoError")
       ELSE IF frame_checks(s3) # "Ok" THEN Ret(s3, frame_checks(s3))
       ELSE read_frame_components(s4, s4.num_components, inp)

(***************************************************************************)
(* read_scan_header.  `inp.comps` are the (id, dc, ac) entries; `inp.n` is *)
(* the number of fields the stream holds: length, count, one per entry,    *)
(* then the three trailing bytes as one field.                             *)
(***************************************************************************)
RECURSIVE ScanComponentsLoop(_, _, _)
ScanComponentsLoop(self, inp, k) ==
    IF k > Len(inp.comps) THEN Ret(self, "Ok")
    ELSE IF inp.n < 2 + k THEN Ret(self, "IoError")
    ELSE LET e == inp.comps[k]
         IN IF e.id \notin DOMAIN self.components
            THEN Ret(self, "Panic")      \* get_mut(..).unwrap() on None
            ELSE ScanComponentsLoop(
                   [self EXCEPT !.components[e.id].dc_table = e.dc,
                                !.components[e.id].ac_table = e.ac,
                                !.scan_components = Append(@, e.id)],
                   inp, k + 1)

read_scan_header(self, inp) ==
    IF inp.n < 2 THEN Ret(self, "IoError")
    ELSE LET l == ScanComponentsLoop([self EXCEPT !.scan_components = << >>], inp, 1)
         IN IF l.res # "Ok" THEN l
            ELSE IF inp.n < 3 + Len(inp.comps) THEN Ret(l.self, "IoError")
            ELSE l

(***************************************************************************)
(* read_restart_interval.  inp.n: fields present (length, interval).       *)
(***************************************************************************)
read_restart_interval(self, inp) ==
    IF inp.n < 2 THEN Ret(self, "IoError")
    ELSE Ret([self EXCEPT !.interval = inp.interval], "Ok")

(***************************************************************************)
(* read_quantization_tables.  inp.len is the declared segment length,      *)
(* inp.recs the (pq, tq) bytes of the records the loop reads, inp.n the    *)
(* number of fields the stream holds: the length, then per record its      *)
(* pq/tq byte and its 64 coefficients.  A table slot is modelled by its    *)
(* having been written.                                                    *)
(***************************************************************************)
RECURSIVE QuantLoop(_, _, _, _)
QuantLoop(self, inp, k, table_length) ==
    IF table_length <= 0 THEN Ret(self, "Ok")
    ELSE IF inp.n < 2 * k \/ k > Len(inp.recs) THEN Ret(self, "IoError")
    ELSE LET pq == inp.recs[k].pq
             tq == inp.recs[k].tq
         IN IF pq # 0 \/ tq > 3 THEN Ret(self, "FormatError")
            ELSE IF inp.n < 2 * k + 1 THEN Ret(self, "IoError")
            ELSE QuantLoop([self EXCEPT !.qtables = @ \cup {tq}],
                           inp, k + 1, table_length - (1 + 64))

read_quantization_tables(self, inp) ==
    IF inp.n < 1 THEN Ret(self, "IoError")
    ELSE QuantLoop(self, inp, 1, inp.len - 2)

(***************************************************************************)
(* read_huffman_tables.  inp.recs are the records the loop reads: class    *)
(* tc, slot th, the number nbits of count bytes obtained (16 unless the    *)
(* stream ends) and the sum mt of the counts; inp.n counts the length and  *)
(* the records the stream holds.  table_length is a u16.                   *)
(***************************************************************************)
RECURSIVE HuffLoop(_, _, _, _)
HuffLoop(self, inp, k, table_length) ==
    IF table_length = 0 THEN Ret(self, "Ok")
    ELSE IF inp.n < 1 + k \/ k > Len(inp.recs) THEN Ret(self, "IoError")
    ELSE LET rec == inp.recs[k]
         IN IF rec.tc # 0 /\ rec.tc # 1 THEN Ret(self, "UnsupportedError")
            ELSE IF rec.th > 1 THEN Ret(self, "Panic")   \* index into [HuffTable; 2]
            ELSE HuffLoop(
                   IF rec.tc = 0
                   THEN [self EXCEPT !.dctables = @ \cup {rec.th}]
                   ELSE [self EXCEPT !.actables = @ \cup {rec.th}],
                   inp, k + 1,
                   U16(table_length - (1 + rec.nbits + rec.mt)))

read_huffman_tables(self, inp) ==
    IF inp.n < 1 THEN Ret(self, "IoError")
    ELSE HuffLoop(self, inp, 1, U16(inp.len - 2))

(***************************************************************************)
(* The APP0 ... APPF | COM arm of read_metadata: the length is read and    *)
(* the contents are skipped; a short read of the contents is no error.     *)
(***************************************************************************)
skip_segment(self, inp) ==
    IF inp.n < 1 THEN Ret(self, "IoError") ELSE Ret(self, "Ok")

(***************************************************************************)
(* extend (Figure F.12).  1 << (t - 1) and (-1) << t for 1 <= t <= 15; for *)
(* t = 0 the shift amount wraps and the code is reached with v = 0 only,   *)
(* where the result is v.                                                  *)
(***************************************************************************)
Pow2(n) == 2 ^ n

extend(v, t) ==
    IF t = 0 THEN v
    ELSE IF v < Pow2(t - 1) THEN v + (0 - Pow2(t)) + 1 ELSE v

(***************************************************************************)
(* The bit reader (HuffDecoder of jpeg/entropy.rs: bits, num_bits, end,    *)
(* marker).  Decoding a block pulls bytes of the entropy-coded segment     *)
(* into the accumulator; inp.nb is the number of bits left buffered after  *)
(* the block (the accumulator then holds that many bits), and inp.cap is   *)
(* the marker code met in the segment while pulling (0: none).  Once a     *)
(* marker is captured (end), nothing more is pulled from the source.       *)
(***************************************************************************)
HuffPull(h, inp) ==
    IF h.end THEN h
    ELSE [bits |-> inp.nb, num_bits |-> inp.nb,
          end |-> inp.cap # 0, marker |-> inp.cap]

(***************************************************************************)
(* decode_symbol of the bit reader: the stream may end inside the block    *)
(* (inp.eof); a table slot that no DHT segment has filled holds the        *)
(* default (empty) table, in which no code is found.                       *)
(***************************************************************************)
decode_symbol(slots, k, inp) ==
    IF inp.eof THEN "IoError"
    ELSE IF k \notin slots THEN "FormatError"
    ELSE "Ok"

(***************************************************************************)
(* decode_block: the DC part and the table lookups.  inp.t is the decoded  *)
(* DC category, inp.v the raw bits received.  Returns the record after the *)
(* call, the outcome and the DC value.                                     *)
(***************************************************************************)
BlockRet(s, r, dc) == [self |-> s, res |-> r, dc |-> dc]

\* A DC value that leaves the predictor out.
dc_value_unpredicted(diff, pred) == diff

\* let dc = diff + pred;
dc_value(diff, pred) == diff + pred

\* Entry pos of quantization table q: the tables' contents are told apart
\* by table and index.
QuantAt(q, pos) == q + pos + 1

\* tmp[0] = dc * qtable[0] as i32;
dc_coefficient(dc, q) == dc * QuantAt(q, 0)

decode_block(self, i, dc, pred, ac, q, inp) ==
    IF i * 64 + 64 > self.mcu THEN BlockRet(self, "Panic", 0)
    ELSE IF dc > 1 \/ ac > 1 THEN BlockRet(self, "Panic", 0)
    ELSE IF 64 * q + 64 > 64 * 4 THEN BlockRet(self, "Panic", 0)
    ELSE IF decode_symbol(self.dctables, dc, inp) # "Ok"
         THEN BlockRet(self, decode_symbol(self.dctables, dc, inp), 0)
    ELSE IF decode_symbol(self.actables, ac, inp) # "Ok"
         THEN BlockRet(self, decode_symbol(self.actables, ac, inp), 0)
    ELSE LET diff == IF inp.t > 0 THEN extend(inp.v, inp.t) ELSE extend(0, inp.t)
         IN BlockRet([self EXCEPT !.h = HuffPull(@, inp)], "Ok", dc_value(diff, pred))

\* A decoder whose reset clears the bit reader only.
reset_keeps_pred(self) == [self EXCEPT !.h = HuffDecoderNew]

(***************************************************************************)
(* reset                                                                   *)
(***************************************************************************)
reset(self) ==
    [self EXCEPT
       !.h = [bits |-> 0, num_bits |-> 0, end |-> FALSE, marker |-> 0],
       !.components = [k \in DOMAIN self.components |->
                         [self.components[k] EXCEPT !.dc_pred = 0]]]

(***************************************************************************)
(* find_restart_marker.  inp.bytes is the sequence of bytes that follow a  *)
(* 0xFF in the part of the stream the loop reads (bytes that are not 0xFF  *)
(* are read and dropped by the loop and are not listed); the stream ends   *)
(* after them.  Returns the marker as `rst`.                               *)
(***************************************************************************)
RstRet(s, r, m) == [self |-> s, res |-> r, rst |-> m]

IsRst(b) == RST0 <= b /\ b <= RST7

RECURSIVE RestartScan(_, _, _)
RestartScan(self, bytes, k) ==
    IF k > Len(bytes) THEN RstRet(self, "IoError", 0)
    ELSE IF IsRst(bytes[k]) THEN RstRet(self, "Ok", bytes[k])
    ELSE IF bytes[k] = EOI THEN RstRet(self, "FormatError", 0)
    ELSE RestartScan(self, bytes, k + 1)

find_restart_marker(self, inp) ==
    IF self.h.marker # 0
    THEN RstRet([self EXCEPT !.h.marker = 0], "Ok", self.h.marker)
    ELSE RestartScan(self, inp.bytes, 1)

(***************************************************************************)
(* read_restart                                                            *)
(***************************************************************************)
RestartDue(self) ==
    LET w == U16(self.width + 7) \div U16(U8(self.hmax * 8))
        h == U16(self.height + 7) \div U16(U8(self.vmax * 8))
    IN /\ self.interval # 0
       /\ self.mcucount % self.interval = 0
       /\ self.mcucount < U16(w * h)

\* A decoder that lets the expected id run past RST7.
next_rst_nowrap(e) == e + 1

\* expected_rst += 1; if expected_rst > RST7 { expected_rst = RST0 }
next_rst(e) == IF e + 1 > RST7 THEN RST0 ELSE e + 1

read_restart(self, inp) ==
    IF U8(self.hmax * 8) = 0 \/ U8(self.vmax * 8) = 0
    THEN Ret(self, "Panic")                  \* division by zero
    ELSE IF RestartDue(self)
    THEN LET f == find_restart_marker(self, inp)
         IN IF f.res # "Ok" THEN Ret(f.self, f.res)
            ELSE IF f.rst = f.self.expected_rst
            THEN Ret([reset(f.self) EXCEPT !.expected_rst = next_rst(@)], "Ok")
            ELSE Ret(f.self, "FormatError")
    ELSE Ret(self, "Ok")

(***************************************************************************)
(* upsample_mcu: whether every index it writes lies inside `out` and every *)
(* slice it takes of `mcu` lies inside `mcu` ("Ok"), or not ("Panic").     *)
(***************************************************************************)
upsample_mcu(out_len, xoffset, width, bpp, mcu_len, h, v) ==
    IF mcu_len = 64
    THEN IF xoffset + 7 + 7 * width < out_len THEN "Ok" ELSE "Panic"
    ELSE IF (h * v) * 64 + 64 > mcu_len THEN "Panic"      \* the slice cb
    ELSE IF h = 0 \/ v = 0 THEN "Ok"
    ELSE IF (h * v) * 64 + 128 > mcu_len THEN "Panic"     \* cr[x + y * 8]
    ELSE LET last == ((v - 1) * 8 + 7) * (width * bpp)
                       + xoffset + (h - 1) * 8 * bpp + 7 * bpp
         IN IF last + 2 < out_len THEN "Ok" ELSE "Panic"

(***************************************************************************)
(* The arms of the match of read_metadata on the marker byte.  `inp` is    *)
(* the segment that follows the marker.                                    *)
(***************************************************************************)
IsApp(m) == APP0 <= m /\ m <= APPF

\* A decoder that lets a progressive frame header pass.
sof2_arm_accepts(self) == Ret(self, "Ok")

\* SOF2 => return Err(UnsupportedError(..))
sof2_arm(self) == Ret(self, "UnsupportedError")

read_metadata_arm(self, marker, inp) ==
    IF marker = SOI THEN Ret([self EXCEPT !.state = "HaveSOI"], "Ok")
    ELSE IF marker = DHT THEN read_huffman_tables(self, inp)
    ELSE IF marker = DQT THEN read_quantization_tables(self, inp)
    ELSE IF marker = SOF0
         THEN LET r == read_frame_header(self, inp)
              IN IF r.res # "Ok" THEN r
                 ELSE Ret([r.self EXCEPT !.state = "HaveFirstFrame"], "Ok")
    ELSE IF marker = SOS
         THEN LET r == read_scan_header(self, inp)
              IN IF r.res # "Ok" THEN r
                 ELSE Ret([r.self EXCEPT !.state = "HaveFirstScan"], "Ok")
    ELSE IF marker = DRI THEN read_restart_interval(self, inp)
    ELSE IF IsApp(marker) \/ marker = COM THEN skip_segment(self, inp)
    ELSE IF marker = TEM THEN Ret(self, "Ok")
    ELSE IF marker = SOF2 THEN sof2_arm(self)
    ELSE IF marker = DNL THEN Ret(self, "UnsupportedError")
    ELSE Ret(self, "FormatError")

(***************************************************************************)
(* The inputs.                                                             *)
(***************************************************************************)
\* Sampling factors a frame header declares.
Samp == {1, 2}
NoInput == [n |-> 0]

FrameComps(nc, h, v) ==
    [k \in 1 .. nc |-> [id |-> k, h |-> IF k = 1 THEN h ELSE 1,
                        v |-> IF k = 1 THEN v ELSE 1, tq |-> 0]]

\* Whole frame headers with sample precision 8 and 1 or 3 components.
GoodFrames(Ws, Hs, Ns, Ss) ==
    {[n |-> 5 + nc, precision |-> 8, height |-> hh, width |-> ww, ncomp |-> nc,
      comps |-> FrameComps(nc, h, v)] :
        nc \in Ns, hh \in Hs, ww \in Ws, h \in Ss, v \in Ss}

\* Whole frame headers that read_frame_header refuses.
BadFrames ==
    {[n |-> 5 + nc, precision |-> 8, height |-> hw[1], width |-> hw[2],
      ncomp |-> nc, comps |-> FrameComps(nc, 1, 1)] :
        hw \in {<<0, 8>>, <<8, 0>>}, nc \in {1, 2}}
    \cup
    {[n |-> 5 + nc, precision |-> 8, height |-> 8, width |-> 8, ncomp |-> nc,
      comps |-> FrameComps(nc, 1, 1)] : nc \in {2, 4}}
    \cup
    {[n |-> 5 + nc, precision |-> 12, height |-> 8, width |-> 8, ncomp |-> nc,
      comps |-> FrameComps(nc, 1, 1)] : nc \in {1, 2}}

\* Frame headers cut short by the end of the stream after n fields.
Truncated(F) == UNION {{[f EXCEPT !.n = n] : n \in 0 .. f.n} : f \in F}

ScanComps(ids) == [k \in 1 .. Len(ids) |-> [id |-> ids[k], dc |-> 0, ac |-> 0]]

ScanHeaders(Ids) == {[n |-> 3 + Len(ids), comps |-> ScanComps(ids)] : ids \in Ids}

TruncatedScans(S) == UNION {{[f EXCEPT !.n = n] : n \in 0 .. f.n} : f \in S}

RestartIntervals(Is) == {[n |-> 2, interval |-> i] : i \in Is}

QuantSegments ==
    {[n |-> n, len |-> 67, recs |-> <<[pq |-> q[1], tq |-> q[2]]>>] :
        n \in 1 .. 3, q \in {<<0, 0>>, <<1, 0>>, <<0, 4>>}}
    \cup {[n |-> n, len |-> 2, recs |-> << >>] : n \in 0 .. 1}

\* One DHT segment with a DC and an AC table for slot 0.
HuffBoth ==
    [n |-> 3, len |-> 2 + 2 * (17 + 1),
     recs |-> <<[tc |-> 0, th |-> 0, nbits |-> 16, mt |-> 1],
                [tc |-> 1, th |-> 0, nbits |-> 16, mt |-> 1]>>]

HuffSegments ==
    {[n |-> n, len |-> 2 + 17 + 1,
      recs |-> <<[tc |-> c[1], th |-> c[2], nbits |-> 16, mt |-> 1]>>] :
        n \in 0 .. 2, c \in {<<0, 0>>, <<2, 0>>, <<1, 2>>}}
    \cup {HuffBoth}

SkippedSegments == {[n |-> 0], [n |-> 1]}

\* Markers the bit reader may capture inside the entropy-coded segment.
CapMarkers == {RST0, EOI}

\* The (category, raw bits) pairs of a DC difference.
DcCodes == {x \in (0 .. MaxCat) \X (0 .. Pow2(MaxCat) - 1) : x[2] < Pow2(x[1])}

BlockEof == [t |-> 0, v |-> 0, nb |-> 0, cap |-> 0, eof |-> TRUE]

BlockInputs(Codes, Caps) ==
    {[t |-> tv[1], v |-> tv[2], nb |-> nb, cap |-> cap, eof |-> FALSE] :
        tv \in Codes, nb \in 0 .. 1, cap \in {0} \cup Caps}
    \cup {BlockEof}

\* What find_restart_marker finds in the stream: the end, a restart marker or
\* EOI, or one of them after another marker (DQT) or a stuffed zero.
RestartBytes ==
    {<< >>} \cup {<<m>> : m \in (RST0 .. RST7) \cup {EOI}}
    \cup {<<x, m>> : x \in {0, DQT}, m \in RST0 .. RST7}

(***************************************************************************)
(* The state: the decoder, the position of the facade call in progress,    *)
(* and what has been observed of the run.                                  *)
(*   pc      "idle" (no call in progress), "metadata" (in the loop of      *)
(*           read_metadata), "body" (after the metadata check of the       *)
(*           call), "block" / "endmcu" (inside decode_mcu), "copy" (at the *)
(*           copy of read_scanline), "panicked"                            *)
(*   call    the facade method in progress or called last; the five        *)
(*           methods begin with the same metadata check, and which one was *)
(*           called is drawn when the check is over ("pending" before)     *)
(*   result  the outcome of the call once it has returned ("none" before)  *)
(*   loc     the locals of decode_mcu_row / decode_mcu / read_image        *)
(*   sig     what the first two bytes read from the stream are: "unread",  *)
(*           "ff" (0xFF, then the end), "soi" (0xFF 0xD8) or "bad"         *)
(*   eof     the stream has ended: every later read fails                  *)
(*   ev      the last step: op, the segment or unit handled; arg, a number *)
(*           read in it (SOF0: the sample precision, 0 if the stream ends  *)
(*           before it; a block: the DC difference; the end of an MCU: the *)
(*           marker find_restart_marker returned, 0 if none; a copy: the   *)
(*           offset in mcu_row it starts at, with its length as aux); aux, *)
(*           at the                                                        *)
(*           end of an MCU, the first marker that is no restart marker met *)
(*           by the scan of find_restart_marker (0 if none)                *)
(*   out     whether the MCU-row buffer and a caller's buffer were         *)
(*           written, and the number of restart markers accepted           *)
(***************************************************************************)
VARIABLES self, pc, call, result, loc, sig, eof, ev, out

vars == <<self, pc, call, result, loc, sig, eof, ev, out>>

Ops == {"dimensions", "colortype", "row_len", "read_scanline", "read_image"}

Loc0 == [x0 |-> 0, ci |-> 1, bi |-> 0, i |-> 0, pred |-> 0, chunks |-> 0]

Event(op, arg) == [op |-> op, arg |-> arg, aux |-> 0]

Init ==
    /\ self = JPEGDecoderNew
    /\ pc = "idle"
    /\ call = "none"
    /\ result = "none"
    /\ loc = Loc0
    /\ sig = "unread"
    /\ eof = FALSE
    /\ ev = Event("new", 0)
    /\ out = [mcu_row |-> FALSE, buf |-> FALSE, restarts |-> 0]

\* The signature after `bytes` more have been read.
Signature(old, bytes) ==
    IF bytes = << >> \/ old \in {"soi", "bad"} THEN old
    ELSE IF old = "ff" THEN (IF bytes[1] = SOI THEN "soi" ELSE "bad")
    ELSE IF bytes[1] # MARK THEN "bad"
    ELSE IF Len(bytes) = 1 THEN "ff"
    ELSE IF bytes[2] = SOI THEN "soi" ELSE "bad"

\* Where a call goes once a step has ended with outcome res: on, or back to
\* the caller with the error, or into the panic.  An IoError is the end of
\* the stream.
Outcome(res, next) ==
    /\ pc' = IF res = "Ok" THEN next ELSE IF res = "Panic" THEN "panicked" ELSE "idle"
    /\ result' = IF res = "Ok" THEN (IF next = "idle" THEN "Ok" ELSE "none") ELSE res
    /\ eof' = (eof \/ res = "IoError")

(***************************************************************************)
(* One iteration of the loop of read_metadata.                             *)
(***************************************************************************)
MdStep(o, bytes, op, arg) ==
    /\ pc = "metadata"
    /\ eof => bytes = << >>
    /\ self' = o.self
    /\ sig' = Signature(sig, bytes)
    /\ ev' = Event(op, arg)
    /\ Outcome(o.res, IF o.self.state = "HaveFirstScan" THEN "body" ELSE "metadata")
    /\ UNCHANGED <<call, loc, out>>

\* read_u8 fails: at the byte, or at the marker after a 0xFF
MdEof == \E bytes \in {<< >>, <<MARK>>} : MdStep(Ret(self, "IoError"), bytes, "eof", 0)

\* byte != 0xFF: continue
MdSkip == MdStep(Ret(self, "Ok"), <<0>>, "skip", 0)

MdMarker(marker, inp, op, arg) ==
    MdStep(read_metadata_arm(self, marker, inp), <<MARK, marker>>, op, arg)

MdSOI == MdMarker(SOI, NoInput, "SOI", 0)

MdDHT(H) == \E inp \in H : MdMarker(DHT, inp, "DHT", 0)

MdDQT(Q) == \E inp \in Q : MdMarker(DQT, inp, "DQT", 0)

MdSOF0(F) ==
    \E inp \in F : MdMarker(SOF0, inp, "SOF0", IF inp.n >= 2 THEN inp.precision ELSE 0)

MdSOS(S) == \E inp \in S : MdMarker(SOS, inp, "SOS", 0)

MdDRI(D) == \E inp \in D : MdMarker(DRI, inp, "DRI", 0)

MdAPP == \E m \in {APP0, COM}, inp \in SkippedSegments : MdMarker(m, inp, "APP", m)

MdTEM == MdMarker(TEM, NoInput, "TEM", 0)

MdSOF2 == MdMarker(SOF2, NoInput, "SOF2", 0)

MdDNL == MdMarker(DNL, NoInput, "DNL", 0)

MdUnknown == \E m \in {SOF1, EOI, MARK} : MdMarker(m, NoInput, "unknown", m)

(***************************************************************************)
(* Where read_scanline goes after its metadata check: into decode_mcu_row  *)
(* when row_count is 0 (its loop runs while x0 < padded_width * bpp, and   *)
(* decode_mcu has blocks to decode when the scan has components), else to  *)
(* the copy.                                                               *)
(***************************************************************************)
McuPc(s) == IF Len(s.scan_components) = 0 THEN "endmcu" ELSE "block"

\* A read_scanline that decodes a row of MCUs at every call.
ScanlinePcDecodesAlways(s) == McuPc(s)

ScanlinePc(s) ==
    IF s.row_count = 0 /\ 0 < s.padded_width * s.num_components
    THEN McuPc(s) ELSE "copy"

(***************************************************************************)
(* The body of a facade method, after its metadata check.  The decoding    *)
(* methods are called while fewer than MaxCalls rows and MaxMcus MCUs have *)
(* been decoded.                                                           *)
(***************************************************************************)
MethodBody(op) ==
    /\ call' = op
    /\ op \in {"read_scanline", "read_image"}
          => self.decoded_rows < MaxCalls /\ self.mcucount < MaxMcus
    /\ IF op \in {"dimensions", "colortype", "row_len"}
       THEN Outcome("Ok", "idle") /\ UNCHANGED loc
       ELSE IF op = "read_scanline"
       THEN /\ Outcome("Ok", ScanlinePc(self))
            /\ loc' = [Loc0 EXCEPT !.chunks = 1]
       ELSE \* read_image: buf.chunks_mut(row) over row * height bytes
            LET row == self.width * self.num_components
            IN IF row = 0 THEN Outcome("Panic", "idle") /\ UNCHANGED loc
               ELSE IF self.height = 0 THEN Outcome("Ok", "idle") /\ UNCHANGED loc
               ELSE /\ Outcome("Ok", ScanlinePc(self))
                    /\ loc' = [Loc0 EXCEPT !.chunks = self.height]

\* A facade method that parses the metadata at every call.
needs_metadata_always(s) ==
    s.state \in {"Start", "HaveSOI", "HaveFirstFrame", "HaveFirstScan"}

\* if self.state == JPEGState::Start { let _ = try!(self.read_metadata()); }
needs_metadata(s) ==
    s.state = "Start"

\* Ok((self.width as u32, self.height as u32))
dimensions(s) == <<s.width, s.height>>

\* Gray(8) if self.num_components == 1, else RGB(8)
colortype(s) == IF s.num_components = 1 THEN "Gray8" ELSE "RGB8"

\* Ok(self.width as usize * self.num_components as usize)
row_len(s) == s.width * s.num_components

(***************************************************************************)
(* A facade method is called: `if self.state == JPEGState::Start` sends it *)
(* into read_metadata, else its body follows at once.                      *)
(***************************************************************************)
Call(O) ==
    /\ pc = "idle"
    /\ ev' = Event("call", 0)
    /\ UNCHANGED <<self, sig, out>>
    /\ IF needs_metadata(self)
       THEN /\ call' = "pending"
            /\ result' = "none"
            /\ pc' = "metadata"
            /\ UNCHANGED <<loc, eof>>
       ELSE \E op \in O : MethodBody(op)

(***************************************************************************)
(* read_metadata has returned Ok: the body of the method follows.          *)
(***************************************************************************)
Body(O) ==
    /\ pc = "body"
    /\ ev' = Event("body", 0)
    /\ UNCHANGED <<self, sig, out>>
    /\ \E op \in O : MethodBody(op)

(***************************************************************************)
(* decode_mcu, one block: the component is cloned before its first block,  *)
(* each block's result becomes the clone's dc_pred, and the clone is       *)
(* inserted back after the component's h * v blocks.                       *)
(***************************************************************************)
DecodeBlock(B) ==
    /\ pc = "block"
    /\ self.mcucount < MaxMcus
    /\ \E inp \in B :
         LET id == self.scan_components[loc.ci]
             known == id \in DOMAIN self.components
             c == self.components[id]
             pred == IF loc.bi = 0 THEN c.dc_pred ELSE loc.pred
             r == IF known
                  THEN decode_block(self, loc.i, c.dc_table, pred, c.ac_table, c.tq, inp)
                  ELSE BlockRet(self, "Panic", 0)     \* get(..).unwrap() on None
             last == loc.bi + 1 >= U8(c.h * c.v)
             s1 == IF last THEN [r.self EXCEPT !.components[id].dc_pred = r.dc]
                   ELSE r.self
             done == last /\ loc.ci = Len(self.scan_components)
         IN /\ eof => inp.eof
            /\ r.res = "Ok" => (0 <= r.dc /\ r.dc <= MaxPred)
            /\ self' = IF r.res = "Ok" THEN s1 ELSE r.self
            /\ loc' = IF r.res # "Ok" THEN loc
                      ELSE [loc EXCEPT !.i = @ + 1, !.pred = r.dc,
                                       !.bi = IF last THEN 0 ELSE @ + 1,
                                       !.ci = IF last THEN @ + 1 ELSE @]
            /\ ev' = [op |-> "block",
                      arg |-> IF r.res = "Ok"
                              THEN extend(IF inp.t > 0 THEN inp.v ELSE 0, inp.t)
                              ELSE r.dc - pred,
                      aux |-> IF r.res = "Ok" /\ known THEN dc_coefficient(r.dc, c.tq) ELSE 0]
            /\ Outcome(r.res, IF done THEN "endmcu" ELSE "block")
    /\ UNCHANGED <<call, sig, out>>

\* The first marker code other than a restart marker among the bytes that
\* follow a 0xFF up to the first restart marker (0: none).
FirstOther(bytes) ==
    LET I == {k \in 1 .. Len(bytes) :
                /\ bytes[k] # 0 /\ ~IsRst(bytes[k])
                /\ \A j \in 1 .. k - 1 : bytes[j] = 0}
    IN IF I = {} THEN 0 ELSE bytes[CHOOSE k \in I : TRUE]

(***************************************************************************)
(* The end of decode_mcu (mcucount += 1; read_restart) and the rest of the *)
(* iteration of decode_mcu_row: upsample_mcu into mcu_row and the step of  *)
(* x0 by bytesperpixel * 8 * hmax.                                         *)
(***************************************************************************)
EndMcu(R) ==
    /\ pc = "endmcu"
    /\ LET s1 == [self EXCEPT !.mcucount = U16(@ + 1)]
           due == U8(s1.hmax * 8) # 0 /\ U8(s1.vmax * 8) # 0 /\ RestartDue(s1)
           scans == due /\ s1.h.marker = 0
       IN \E bytes \in IF scans /\ ~eof THEN R ELSE {<< >>} :
            LET inp == [bytes |-> bytes]
                r == read_restart(s1, inp)
                f == find_restart_marker(s1, inp)
                accepted == due /\ r.res = "Ok"
                bpp == r.self.num_components
                u == upsample_mcu(r.self.mcu_row, loc.x0, r.self.padded_width, bpp,
                                  r.self.mcu, r.self.hmax, r.self.vmax)
                res == IF r.res # "Ok" THEN r.res ELSE u
                x1 == loc.x0 + bpp * 8 * r.self.hmax
                more == x1 < r.self.padded_width * bpp
            IN /\ self' = r.self
               /\ ev' = [op |-> IF accepted THEN "restart" ELSE "mcu",
                         arg |-> IF due /\ f.res = "Ok" THEN f.rst ELSE 0,
                         aux |-> IF scans THEN FirstOther(bytes) ELSE 0]
               /\ out' = [out EXCEPT
                            !.mcu_row = @ \/ res = "Ok",
                            !.restarts = IF accepted THEN @ + 1 ELSE @]
               /\ loc' = IF res = "Ok"
                         THEN [Loc0 EXCEPT !.x0 = x1, !.chunks = loc.chunks]
                         ELSE loc
               /\ Outcome(res, IF more THEN McuPc(r.self) ELSE "copy")
    /\ UNCHANGED <<call, sig>>

\* A read_scanline that does not count the row.
scanline_counters_lost(s) ==
    [s EXCEPT !.row_count = U8(@ + 1) % U8(s.vmax * 8)]

\* self.row_count = (self.row_count + 1) % (self.vmax * 8);
\* self.decoded_rows += 1 (a u32, below MaxCalls here)
scanline_counters(s) ==
    [s EXCEPT !.row_count = U8(@ + 1) % U8(s.vmax * 8),
                 !.decoded_rows = @ + 1]

\* A slice that starts at a row of unpadded length.
slice_start_unpadded(s) ==
    s.row_count * (s.width * s.num_components)

\* let len = self.padded_width * self.num_components;
\* &self.mcu_row[self.row_count * len ..]: where the slice starts
slice_start(s) ==
    s.row_count * (s.padded_width * s.num_components)

(***************************************************************************)
(* The copy of read_scanline and its counters; in read_image, the next     *)
(* chunk's read_scanline follows.                                          *)
(***************************************************************************)
Copy ==
    /\ pc = "copy"
    /\ LET start == slice_start(self)
           buflen == self.width * self.num_components
           res == IF start + buflen > self.mcu_row THEN "Panic"
                  ELSE IF U8(self.vmax * 8) = 0 THEN "Panic"
                  ELSE "Ok"
           s1 == scanline_counters(self)
           left == loc.chunks - 1
       IN /\ self' = IF res = "Ok" THEN s1 ELSE self
          /\ out' = IF res = "Ok" THEN [out EXCEPT !.buf = TRUE] ELSE out
          /\ loc' = IF res = "Ok" THEN [Loc0 EXCEPT !.chunks = left] ELSE loc
          /\ ev' = [op |-> "copy", arg |-> start, aux |-> buflen]
          /\ Outcome(res, IF left = 0 THEN "idle" ELSE ScanlinePc(s1))
    /\ UNCHANGED <<call, sig>>

(***************************************************************************)
(* Any stream: every marker, whole and truncated segments, small frames.   *)
(***************************************************************************)
Widths == {8 * k : k \in 1 .. MaxCols}
AnyFrames == Truncated(GoodFrames(Widths, {8}, {1, 3}, Samp) \cup BadFrames)
AnyScans == TruncatedScans(ScanHeaders({<< >>, <<1>>, <<1, 2, 3>>, <<4>>}))
AnyIntervals == RestartIntervals({0, 1}) \cup {NoInput}
FlatBlocks == BlockInputs({<<0, 0>>}, {})

Next ==
    \/ Call(Ops)
    \/ MdEof
    \/ MdSkip
    \/ MdSOI
    \/ MdDHT(HuffSegments)
    \/ MdDQT(QuantSegments)
    \/ MdSOF0(AnyFrames)
    \/ MdSOS(AnyScans)
    \/ MdDRI(AnyIntervals)
    \/ MdAPP
    \/ MdTEM
    \/ MdSOF2
    \/ MdDNL
    \/ MdUnknown
    \/ Body(Ops)
    \/ DecodeBlock(FlatBlocks)
    \/ EndMcu(RestartBytes)
    \/ Copy

Spec == Init /\ [][Next]_vars

(***************************************************************************)
(* Well-formed streams with restart intervals: SOI, Huffman tables, DRI,   *)
(* one frame header and a scan header naming the frame's components, in    *)
(* any order the parser takes them, then entropy-coded data in which the   *)
(* bit reader may capture markers and restart markers may be found,        *)
(* misplaced or missing.                                                   *)
(***************************************************************************)
RestartFrames ==
    GoodFrames({8 * k : k \in 1 .. MaxGrayCols}, {8}, {1}, {1})
    \cup GoodFrames({8 * k : k \in 1 .. MaxColorCols}, {8}, {3}, Samp)

Intervals == RestartIntervals(1 .. MaxInterval)
CodedBlocks == BlockInputs(DcCodes, CapMarkers)

NextRestart ==
    \/ (result \in {"none", "Ok"} /\ Call({"read_scanline"}))
    \/ (sig = "unread" /\ MdSOI)
    \/ MdDHT({HuffBoth})
    \/ MdDRI(Intervals)
    \/ (self.state = "HaveSOI" /\ MdSOF0(RestartFrames))
    \/ (self.state = "HaveFirstFrame"
          /\ MdSOS(ScanHeaders({[k \in 1 .. self.num_components |-> k]})))
    \/ Body({"read_scanline"})
    \/ DecodeBlock(CodedBlocks)
    \/ EndMcu(RestartBytes)
    \/ Copy

SpecRestart == Init /\ [][NextRestart]_vars

(***************************************************************************)
(* Streams whose segments name table slots in and out of range: frame      *)
(* headers with a quantization selector tq of 0, 3 or 4, scan headers with *)
(* DC and AC selectors of 0, 1 or 2, DQT and DHT segments with good and    *)
(* bad records, then entropy-coded data.                                   *)
(***************************************************************************)
SelectorFrames ==
    {[n |-> 5 + nc, precision |-> 8, height |-> 8, width |-> 8, ncomp |-> nc,
      comps |-> [k \in 1 .. nc |->
                   [id |-> k, h |-> 1, v |-> 1, tq |-> IF k = 1 THEN tq ELSE 0]]] :
        nc \in {1, 3}, tq \in {0, 3, 4}}

SelectorScans ==
    {[n |-> 3 + nc,
      comps |-> [k \in 1 .. nc |->
                   [id |-> k, dc |-> IF k = 1 THEN t[1] ELSE 0,
                    ac |-> IF k = 1 THEN t[2] ELSE 0]]] :
        nc \in {1, 3}, t \in {<<0, 0>>, <<1, 1>>, <<2, 0>>, <<0, 2>>}}

SelectorHuff ==
    HuffSegments
    \cup {[n |-> 3, len |-> 2 + 2 * (17 + 1),
           recs |-> <<[tc |-> 0, th |-> 1, nbits |-> 16, mt |-> 1],
                      [tc |-> 1, th |-> 1, nbits |-> 16, mt |-> 1]>>]}

NextSelect ==
    \/ (result \in {"none", "Ok"} /\ Call({"read_scanline"}))
    \/ (sig = "unread" /\ MdSOI)
    \/ MdDHT(SelectorHuff)
    \/ MdDQT(QuantSegments)
    \/ (self.state = "HaveSOI" /\ MdSOF0(SelectorFrames))
    \/ (self.state = "HaveFirstFrame" /\ self.dctables # {} /\ MdSOS(SelectorScans))
    \/ Body({"read_scanline"})
    \/ DecodeBlock(FlatBlocks)
    \/ EndMcu(RestartBytes)
    \/ Copy

SpecSelect == Init /\ [][NextSelect]_vars

(***************************************************************************)
(* The bytes of a length-prefixed segment.  The stream goes on behind the  *)
(* segment (with what inp.recs lists, for DQT and DHT; with inp.rest bytes *)
(* behind the length, for APPn and COM), and the number of bytes a handler *)
(* reads behind the marker is counted.  `length - 2` on a u16 below 2, and *)
(* a u16 table_length that a record overshoots, overflow: a build with     *)
(* overflow checks panics there, a build without them wraps.               *)
(***************************************************************************)
RECURSIVE QuantUsed(_, _, _)
QuantUsed(inp, k, table_length) ==
    IF table_length <= 0 \/ k > Len(inp.recs) THEN 0
    ELSE IF inp.recs[k].pq # 0 \/ inp.recs[k].tq > 3 THEN 1
    ELSE 1 + 64 + QuantUsed(inp, k + 1, table_length - (1 + 64))

RECURSIVE HuffUsed(_, _, _)
HuffUsed(inp, k, table_length) ==
    IF table_length = 0 \/ k > Len(inp.recs) THEN 0
    ELSE IF inp.recs[k].tc # 0 /\ inp.recs[k].tc # 1 THEN 1
    ELSE 1 + inp.recs[k].nbits + inp.recs[k].mt
         + (IF inp.recs[k].th > 1 THEN 0
            ELSE HuffUsed(inp, k + 1,
                          U16(table_length - (1 + inp.recs[k].nbits + inp.recs[k].mt))))

\* Whether a u16 subtraction of read_huffman_tables overflows.
RECURSIVE HuffOverflows(_, _, _)
HuffOverflows(inp, k, table_length) ==
    IF table_length < 0 THEN TRUE
    ELSE IF table_length = 0 \/ k > Len(inp.recs) THEN FALSE
    ELSE IF inp.recs[k].tc # 0 /\ inp.recs[k].tc # 1 THEN FALSE
    ELSE IF inp.recs[k].th > 1 THEN FALSE
    ELSE HuffOverflows(inp, k + 1,
                       table_length - (1 + inp.recs[k].nbits + inp.recs[k].mt))

\* take((length - 2) as u64).read_to_end(..) of the APPn and COM arm
SkipUsed(inp) == IF U16(inp.len - 2) < inp.rest THEN U16(inp.len - 2) ELSE inp.rest

SegStep(o, marker, op, len, used) ==
    /\ pc = "metadata"
    /\ ~eof
    /\ self' = o.self
    /\ sig' = Signature(sig, <<MARK, marker>>)
    /\ ev' = [op |-> op, arg |-> len, aux |-> used]
    /\ Outcome(o.res, "metadata")
    /\ UNCHANGED <<call, loc, out>>

SegDQT(Q) ==
    \E inp \in Q :
        SegStep(read_metadata_arm(self, DQT, inp), DQT, "DQT", inp.len,
                2 + QuantUsed(inp, 1, inp.len - 2))

SegDHT(H) ==
    \E inp \in H, checked \in BOOLEAN :
        SegStep(IF checked /\ HuffOverflows(inp, 1, inp.len - 2)
                THEN Ret(self, "Panic")
                ELSE read_metadata_arm(self, DHT, inp),
                DHT, "DHT", inp.len, 2 + HuffUsed(inp, 1, U16(inp.len - 2)))

SegAPP(A) ==
    \E inp \in A, checked \in BOOLEAN :
        SegStep(IF checked /\ inp.len < 2
                THEN Ret(self, "Panic")
                ELSE read_metadata_arm(self, APP0, inp),
                APP0, "APP", inp.len, 2 + SkipUsed(inp))

\* DQT segments: a declared length and the 65-byte records found behind it.
SizedQuant ==
    {[n |-> 7, len |-> len, recs |-> [k \in 1 .. 3 |-> [pq |-> pq[k], tq |-> k - 1]]] :
        len \in {0, 1, 2, 67, 68, 132}, pq \in [1 .. 3 -> {0, 1}]}

\* DHT segments: a declared length and the 18-byte records found behind it.
SizedHuff ==
    {[n |-> 4, len |-> len,
      recs |-> [k \in 1 .. 3 |-> [tc |-> tc[k], th |-> 0, nbits |-> 16, mt |-> 1]]] :
        len \in {0, 1, 2, 12, 20, 38}, tc \in [1 .. 3 -> {0, 1, 2}]}

\* APPn segments: a declared length, and 8 more bytes in the stream.
SizedSkipped == {[n |-> 1, len |-> len, rest |-> 8] : len \in {0, 1, 2, 5, 10}}

NextSegment ==
    \/ (result = "none" /\ Call({"dimensions"}))
    \/ (sig = "unread" /\ MdSOI)
    \/ SegDQT(SizedQuant)
    \/ SegDHT(SizedHuff)
    \/ SegAPP(SizedSkipped)

SpecSegment == Init /\ [][NextSegment]_vars

(***************************************************************************)
(* read_image on a new decoder over a well-formed stream without restart   *)
(* intervals: gray and three-component frames whose widths and heights are *)
(* and are not multiples of the MCU size.                                  *)
(***************************************************************************)
ImageSizes == {8 * k : k \in 1 .. MaxImageMcus} \cup {8 * k - 3 : k \in 1 .. MaxImageMcus}

ImageFrames ==
    GoodFrames(ImageSizes, ImageSizes, {1}, {1})
    \cup GoodFrames(ImageSizes, ImageSizes, {3}, Samp)

NoRestart == {<< >>}

NextImage ==
    \/ (result = "none" /\ Call({"read_image"}))
    \/ (sig = "unread" /\ MdSOI)
    \/ (self.dctables = {} /\ MdDHT({HuffBoth}))
    \/ (self.state = "HaveSOI" /\ self.dctables # {} /\ MdSOF0(ImageFrames))
    \/ (self.state = "HaveFirstFrame"
          /\ MdSOS(ScanHeaders({[k \in 1 .. self.num_components |-> k]})))
    \/ Body({"read_image"})
    \/ DecodeBlock(FlatBlocks)
    \/ EndMcu(NoRestart)
    \/ Copy

SpecImage == Init /\ [][NextImage]_vars

(***************************************************************************)
(* The five facade methods called in any order, any number of times, also  *)
(* after an error, over streams whose segments are whole but may come in   *)
(* any order and may end early.                                            *)
(***************************************************************************)
FacadeFrames ==
    GoodFrames(Widths, {8}, {1}, {1}) \cup GoodFrames(Widths, {8}, {3}, Samp)

FacadeScans == ScanHeaders({<<1>>, <<1, 2, 3>>})

FacadeHuff == {HuffBoth}

NextFacade ==
    \/ Call(Ops)
    \/ MdEof
    \/ MdSOI
    \/ MdDHT(FacadeHuff)
    \/ MdSOF0(FacadeFrames)
    \/ MdSOS(FacadeScans)
    \/ Body(Ops)
    \/ DecodeBlock(FlatBlocks)
    \/ EndMcu(NoRestart)
    \/ Copy

SpecFacade == Init /\ [][NextFacade]_vars

(***************************************************************************)
(* The BMP decoder (src/bmp/decoder.rs).  The file is its header fields    *)
(* and its length; the byte at position p of the file is ByteAt(p), so     *)
(* that every byte of the pixel data tells where it came from.  The reader *)
(* is a file: a read of three bytes gives what is left when fewer are      *)
(* left, fails at the end, and a seek past the end succeeds.  In this      *)
(* specification self is the BMPDecoder, loc the reader (file, position)   *)
(* with the locals of read_pixels (px and the two loop counters), and out  *)
(* the vector data.                                                        *)
(***************************************************************************)
BMPDecoderNew ==
    [state |-> "Start", file_size |-> 0, pixel_offset |-> 0,
     width |-> 0, height |-> 0, bits_per_pixel |-> 0]

ByteAt(p) == p % 256

\* The sample of channel c (0, 1, 2: red, green, blue) of pixel (x, y) of
\* an image: the samples of an image are told apart by their place.
Pix(img, x, y, c) == (img.seed + 3 * (y * img.w + x) + c) % 256

\* The byte that BMPEncoder::write_data writes as byte number i of the
\* pixel data: px[2], px[1], px[0] of each pixel of a row, then width % 4
\* zero bytes.
EncodedByte(img, i) ==
    LET stride == 3 * img.w + (img.w % 4)
        y == i \div stride
        r == i % stride
    IN IF r < 3 * img.w THEN Pix(img, r \div 3, y, 2 - (r % 3)) ELSE 0

\* The byte at position p of a file: of a file the encoder wrote (after
\* its 54 bytes of headers), or of any other file.
FileByte(f, p) ==
    IF "image" \in DOMAIN f THEN (IF p < 54 THEN 0 ELSE EncodedByte(f.image, p - 54))
    ELSE ByteAt(p)

\* i32::abs, away from i32::MIN
Abs(n) == IF n < 0 THEN -n ELSE n

read_bmp_header(s, f) ==
    IF f.len < 2 THEN Ret(s, "IoError")
    ELSE IF ~f.magic THEN Ret(s, "FormatError")
    ELSE IF f.len < 14 THEN Ret(s, "IoError")
    ELSE Ret([s EXCEPT !.file_size = f.len,
                       !.pixel_offset = f.pixel_offset,
                       !.state = "HaveBmpHeader"], "Ok")

read_dib_header(s, f) ==
    LET r == IF s.state = "Start" THEN read_bmp_header(s, f) ELSE Ret(s, "Ok")
    IN IF s.state = "HaveDibHeader" THEN Ret(s, "Ok")
       ELSE IF r.res # "Ok" THEN r
       ELSE IF f.len < 54 THEN Ret(r.self, "IoError")
       ELSE IF f.header_size = 12 THEN Ret(r.self, "UnsupportedError")
       ELSE IF f.header_size = 40 /\ f.compression = 3 THEN Ret(r.self, "UnsupportedError")
       ELSE IF f.bits_per_pixel # 24 THEN Ret(r.self, "UnsupportedError")
       ELSE IF f.compression # 0 THEN Ret(r.self, "UnsupportedError")
       ELSE Ret([r.self EXCEPT !.width = Abs(f.width),
                               !.height = Abs(f.height),
                               !.bits_per_pixel = f.bits_per_pixel,
                               !.state = "HaveDibHeader"], "Ok")

\* Rows that are not followed by padding.
bmp_padding_none(w) == 0

\* let padding = self.width as i64 % 4;
bmp_padding(w) == w % 4

\* Where the loops of read_pixels stand: `for _ in 0 .. self.height`,
\* `for _ in 0 .. self.width`, the seek over the padding, the return.
PixelsPc(s, row, col) ==
    IF row >= s.height THEN "idle"
    ELSE IF col < s.width THEN "pixel"
    ELSE "padding"

\* read_image: read_pixels up to its loops.
BmpReadImage ==
    /\ pc = "idle"
    /\ result = "none"
    /\ LET r == read_dib_header(self, loc.file)
       IN /\ self' = r.self
          /\ loc' = IF r.res = "Ok" THEN [loc EXCEPT !.pos = r.self.pixel_offset] ELSE loc
          /\ Outcome(r.res, PixelsPc(r.self, 0, 0))
    /\ ev' = Event("read_image", 0)
    /\ UNCHANGED <<call, sig, out>>

\* try!(self.r.read(&mut px)); data.push_all(&[px[2], px[1], px[0]]);
BmpPixel ==
    /\ pc = "pixel"
    /\ LET left == loc.file.len - loc.pos
           n == IF left < 3 THEN left ELSE 3
           px == [i \in 1 .. 3 |->
                    IF i <= n THEN FileByte(loc.file, loc.pos + i - 1) ELSE loc.px[i]]
       IN IF left <= 0
          THEN Outcome("IoError", "idle") /\ UNCHANGED <<loc, out>>
          ELSE /\ loc' = [loc EXCEPT !.pos = @ + n, !.px = px, !.col = @ + 1]
               /\ out' = out \o <<px[3], px[2], px[1]>>
               /\ Outcome("Ok", PixelsPc(self, loc.row, loc.col + 1))
    /\ ev' = Event("pixel", 0)
    /\ UNCHANGED <<self, call, sig>>

\* try!(self.r.seek(padding, SeekCur));
BmpPadding ==
    /\ pc = "padding"
    /\ loc' = [loc EXCEPT !.pos = @ + bmp_padding(self.width), !.row = @ + 1, !.col = 0]
    /\ Outcome("Ok", PixelsPc(self, loc.row + 1, 0))
    /\ ev' = Event("padding", 0)
    /\ UNCHANGED <<self, call, sig, out>>

\* The bytes of the pixel data of a bitmap w wide and h high.
BmpDataLen(w, h) == Abs(h) * (3 * Abs(w) + bmp_padding(Abs(w)))

BmpHeaders ==
    [header_size : {12, 40, 108}, bits_per_pixel : {8, 24}, compression : {0, 3}]

BmpOffsets == {54, 57}

BmpFiles ==
    {[magic |-> m, pixel_offset |-> o, width |-> w, height |-> h,
      header_size |-> hd.header_size, bits_per_pixel |-> hd.bits_per_pixel,
      compression |-> hd.compression, len |-> o + BmpDataLen(w, h) - cut] :
        m \in BOOLEAN, o \in BmpOffsets,
        w \in -1 .. MaxBmpCols, h \in -MaxBmpRows .. MaxBmpRows,
        hd \in BmpHeaders, cut \in 0 .. MaxBmpCut}

InitBmp ==
    /\ self = BMPDecoderNew
    /\ \E f \in BmpFiles : loc = [file |-> f, pos |-> 0, px |-> <<0, 0, 0>>, row |-> 0, col |-> 0]
    /\ out = << >>
    /\ pc = "idle"
    /\ call = "read_image"
    /\ result = "none"
    /\ sig = "unread"
    /\ eof = FALSE
    /\ ev = Event("new", 0)

NextBmp == BmpReadImage \/ BmpPixel \/ BmpPadding

SpecBmp == InitBmp /\ [][NextBmp]_vars

(***************************************************************************)
(* upsample_mcu, pixel by pixel.  In this specification self is the        *)
(* arguments of one call (xoffset, width, bpp, h, v and the length of the  *)
(* MCU), loc the loop variables by, bx, k, y, x, and out maps every offset *)
(* written so far to the indices in mcu of the samples its pixel was made  *)
(* from (luma, cb, cr; the one sample of a gray MCU as luma).              *)
(***************************************************************************)
\* let offset = (y0 + y) * (width * bpp) + x0 + x * bpp, with y0 = by * 8
\* and x0 = xoffset + bx * 8 * bpp
upsample_offset(a, l) ==
    (l.by * 8 + l.y) * (a.width * a.bpp) + (a.xoffset + l.bx * 8 * a.bpp) + l.x * a.bpp

\* (y_blocks[k * 64 + x + y * 8], cb[x + y * 8], cr[x + y * 8]), where cb
\* starts at h * v * 64 in mcu and cr 64 later
upsample_sources(a, l) ==
    [luma |-> l.k * 64 + l.x + l.y * 8,
     cb |-> a.h * a.v * 64 + l.x + l.y * 8,
     cr |-> a.h * a.v * 64 + 64 + l.x + l.y * 8]

\* The loop variables after one more pixel, all 8 when the loops are over.
upsample_next(a, l) ==
    IF l.x < 7 THEN [l EXCEPT !.x = @ + 1]
    ELSE IF l.y < 7 THEN [l EXCEPT !.x = 0, !.y = @ + 1]
    ELSE IF a.mcu_len # 64 /\ l.bx < a.h - 1
    THEN [l EXCEPT !.x = 0, !.y = 0, !.bx = @ + 1, !.k = @ + 1]
    ELSE IF a.mcu_len # 64 /\ l.by < a.v - 1
    THEN [l EXCEPT !.x = 0, !.y = 0, !.bx = 0, !.by = @ + 1, !.k = @ + 1]
    ELSE [by |-> 8, bx |-> 8, k |-> 8, y |-> 8, x |-> 8]

UpsampleStep(off, src) ==
    /\ pc = "pixel"
    /\ out' = [o \in DOMAIN out \cup {off} |-> IF o = off THEN src ELSE out[o]]
    /\ loc' = upsample_next(self, loc)
    /\ Outcome("Ok", IF loc'.x = 8 THEN "idle" ELSE "pixel")
    /\ ev' = Event("pixel", off)
    /\ UNCHANGED <<self, call, sig>>

\* out[xoffset + x + (y * width)] = mcu[x + y * 8]
UpsampleGray ==
    /\ self.mcu_len = 64
    /\ UpsampleStep(self.xoffset + loc.x + (loc.y * self.width),
                    [luma |-> loc.x + loc.y * 8])

UpsampleColor ==
    /\ self.mcu_len # 64
    /\ UpsampleStep(upsample_offset(self, loc), upsample_sources(self, loc))

\* The calls decode_mcu_row makes for a row of up to MaxUpsampleMcus MCUs,
\* each 8 h pixels wide: gray ones and three-component ones.
UpsampleCalls ==
    {[xoffset |-> i * (8 * h * bpp), width |-> m * (8 * h), bpp |-> bpp,
      h |-> h, v |-> v, mcu_len |-> 64 * (h * v + bpp - 1)] :
        h \in Samp, v \in Samp, bpp \in {3},
        m \in 1 .. MaxUpsampleMcus, i \in 0 .. MaxUpsampleMcus - 1}
    \cup {[xoffset |-> i * 8, width |-> m * 8, bpp |-> 1,
           h |-> 1, v |-> 1, mcu_len |-> 64] :
            m \in 1 .. MaxUpsampleMcus, i \in 0 .. MaxUpsampleMcus - 1}

InitUpsample ==
    /\ self \in {a \in UpsampleCalls : a.xoffset < a.width * a.bpp}
    /\ loc = [by |-> 0, bx |-> 0, k |-> 0, y |-> 0, x |-> 0]
    /\ out = << >>
    /\ pc = "pixel"
    /\ call = "read_scanline"
    /\ result = "none"
    /\ sig = "soi"
    /\ eof = FALSE
    /\ ev = Event("upsample_mcu", 0)

NextUpsample == UpsampleGray \/ UpsampleColor

SpecUpsample == InitUpsample /\ [][NextUpsample]_vars

(***************************************************************************)
(* The AC loop of decode_block, one symbol at a time.  In this             *)
(* specification loc.k is the loop's k, and out is the last coefficient    *)
(* written: pos the index k + 1 into UNZIGZAG and qtable, idx the index    *)
(* into tmp (both 0 before the first), bits the ssss bits received for it  *)
(* and val the value stored.  A symbol is any byte: rrrr its high four     *)
(* bits, ssss its low four.  The quantization table holds AcQuant(pos) at  *)
(* index pos, so that an entry tells its index.                            *)
(***************************************************************************)
UNZIGZAG ==
    << 0,  1,  8, 16,  9,  2,  3, 10,
      17, 24, 32, 25, 18, 11,  4,  5,
      12, 19, 26, 33, 40, 48, 41, 34,
      27, 20, 13,  6,  7, 14, 21, 28,
      35, 42, 49, 56, 57, 50, 43, 36,
      29, 22, 15, 23, 30, 37, 44, 51,
      58, 59, 52, 45, 38, 31, 39, 46,
      53, 60, 61, 54, 47, 55, 62, 63 >>

AcQuant(pos) == pos + 1

\* An iteration in which ZRL skips 15 positions.
ac_step_short_zrl(k, rrrr, ssss, ended) ==
    IF ended THEN [res |-> "IoError", k |-> k, more |-> FALSE, pos |-> 0]
    ELSE IF ssss = 0
    THEN (IF rrrr # 15
          THEN [res |-> "Ok", k |-> k, more |-> FALSE, pos |-> 0]
          ELSE [res |-> "Ok", k |-> k + 15, more |-> k + 15 < 63, pos |-> 0])
    ELSE IF k + rrrr + 1 >= 64
    THEN [res |-> "Panic", k |-> k + rrrr, more |-> FALSE, pos |-> k + rrrr + 1]
    ELSE [res |-> "Ok", k |-> k + rrrr + 1, more |-> k + rrrr + 1 < 63,
          pos |-> k + rrrr + 1]

\* extend(t, ssss) * qtable[k + 1] as i32
ac_coefficient(t, ssss, pos) == extend(t, ssss) * AcQuant(pos)

\* One iteration of `while k < 63`: the outcome, the new k, whether the
\* loop goes on, and the index used (0: none).
ac_step(k, rrrr, ssss, ended) ==
    IF ended THEN [res |-> "IoError", k |-> k, more |-> FALSE, pos |-> 0]
    ELSE IF ssss = 0
    THEN (IF rrrr # 15
          THEN [res |-> "Ok", k |-> k, more |-> FALSE, pos |-> 0]
          ELSE [res |-> "Ok", k |-> k + 16, more |-> k + 16 < 63, pos |-> 0])
    ELSE IF k + rrrr + 1 >= Len(UNZIGZAG)
    THEN [res |-> "Panic", k |-> k + rrrr, more |-> FALSE, pos |-> k + rrrr + 1]
    ELSE [res |-> "Ok", k |-> k + rrrr + 1, more |-> k + rrrr + 1 < 63,
          pos |-> k + rrrr + 1]

AcSymbol(Runs, Sizes) ==
    /\ pc = "ac"
    /\ \E rrrr \in Runs, ssss \in Sizes, e \in BOOLEAN :
       \E t \in 0 .. Pow2(ssss) - 1 :
         LET r == ac_step(loc.k, rrrr, ssss, e)
         IN /\ loc' = [loc EXCEPT !.k = r.k]
            /\ out' = IF r.pos = 0 THEN out
                      ELSE IF r.res # "Ok"
                      THEN [pos |-> r.pos, idx |-> 64, bits |-> t, val |-> 0]
                      ELSE [pos |-> r.pos, idx |-> UNZIGZAG[r.pos + 1], bits |-> t,
                            val |-> ac_coefficient(t, ssss, r.pos)]
            /\ ev' = [op |-> "ac", arg |-> rrrr, aux |-> ssss]
            /\ Outcome(r.res, IF r.more THEN "ac" ELSE "idct")
    /\ UNCHANGED <<self, call, sig>>

\* transform::idct(&tmp, zz); Ok(dc)
AcReturn ==
    /\ pc = "idct"
    /\ ev' = Event("idct", 0)
    /\ Outcome("Ok", "idle")
    /\ UNCHANGED <<self, call, sig, loc, out>>

AcRuns == 0 .. 15
AcSizes == 0 .. MaxCat

InitAc ==
    /\ self = JPEGDecoderNew
    /\ loc = [k |-> 0]
    /\ out = [pos |-> 0, idx |-> 0, bits |-> 0, val |-> 0]
    /\ pc = "ac"
    /\ call = "read_scanline"
    /\ result = "none"
    /\ sig = "soi"
    /\ eof = FALSE
    /\ ev = Event("decode_block", 0)

NextAc == AcSymbol(AcRuns, AcSizes) \/ AcReturn

SpecAc == InitAc /\ [][NextAc]_vars

(***************************************************************************)
(* read_scanline over well-formed streams without restart intervals whose  *)
(* blocks carry every DC difference of category up to MaxCat.              *)
(***************************************************************************)
DcBlocks == BlockInputs(DcCodes, {})

NextDc ==
    \/ (result \in {"none", "Ok"} /\ Call({"read_scanline"}))
    \/ (sig = "unread" /\ MdSOI)
    \/ (self.dctables = {} /\ MdDHT(FacadeHuff))
    \/ (self.state = "HaveSOI" /\ self.dctables # {} /\ MdSOF0(FacadeFrames))
    \/ (self.state = "HaveFirstFrame"
          /\ MdSOS(ScanHeaders({[k \in 1 .. self.num_components |-> k]})))
    \/ Body({"read_scanline"})
    \/ DecodeBlock(DcBlocks)
    \/ EndMcu(NoRestart)
    \/ Copy

SpecDc == Init /\ [][NextDc]_vars

(***************************************************************************)
(* extend as a function of its own.  In this specification self is the     *)
(* pair of arguments and out the value returned.  The shift amount of      *)
(* `1 << (t as usize).wrapping_sub(1)` is usize::MAX when t = 0: a build    *)
(* with overflow checks panics there, a build without them masks the       *)
(* amount to 31, and v < i32::MIN is false.                                *)
(***************************************************************************)
\* Whether the amount of the first shift is within the 32 bits of an i32.
extend_shift_in_range(t) == t >= 1 /\ t - 1 < 32

extend_call(v, t, checked) ==
    IF ~extend_shift_in_range(t) /\ checked THEN [res |-> "Panic", val |-> 0]
    ELSE [res |-> "Ok", val |-> extend(v, t)]

ExtendCall ==
    /\ pc = "extend"
    /\ \E checked \in BOOLEAN :
         LET r == extend_call(self.v, self.t, checked)
         IN /\ out' = r.val
            /\ Outcome(r.res, "idle")
    /\ ev' = Event("extend", 0)
    /\ UNCHANGED <<self, call, sig, loc>>

ExtendArgs ==
    {[v |-> v, t |-> t] : v \in 0 .. Pow2(MaxExtendCat) - 1, t \in 0 .. MaxExtendCat}

InitExtend ==
    /\ self \in {a \in ExtendArgs : a.v < Pow2(a.t) \/ (a.t = 0 /\ a.v < 2)}
    /\ loc = Loc0
    /\ out = 0
    /\ pc = "extend"
    /\ call = "read_scanline"
    /\ result = "none"
    /\ sig = "soi"
    /\ eof = FALSE
    /\ ev = Event("decode_block", 0)

NextExtend == ExtendCall

SpecExtend == InitExtend /\ [][NextExtend]_vars

(***************************************************************************)
(* read_scanline over single-component frames that declare any sampling    *)
(* factors from 0 to MaxGrayFactor.                                        *)
(***************************************************************************)
GrayFactors == 0 .. MaxGrayFactor

GrayFrames == GoodFrames(ImageSizes, {8}, {1}, GrayFactors)

NextGray ==
    \/ (result \in {"none", "Ok"} /\ Call({"read_scanline"}))
    \/ (sig = "unread" /\ MdSOI)
    \/ (self.dctables = {} /\ MdDHT(FacadeHuff))
    \/ (self.state = "HaveSOI" /\ self.dctables # {} /\ MdSOF0(GrayFrames))
    \/ (self.state = "HaveFirstFrame" /\ MdSOS(ScanHeaders({<<1>>})))
    \/ Body({"read_scanline"})
    \/ DecodeBlock(FlatBlocks)
    \/ EndMcu(NoRestart)
    \/ Copy

SpecGray == Init /\ [][NextGray]_vars

(***************************************************************************)
(* The calls of upsample_mcu that decode_mcu_row makes for frames of every *)
(* padded width up to 8 * MaxRowBlocks: x0 steps by bytesperpixel * 8 *    *)
(* hmax while below padded_width * bytesperpixel, and the buffer out is    *)
(* the mcu_row that read_frame_components sized (out_len).                 *)
(***************************************************************************)
McuRowCalls ==
    {[xoffset |-> i * (8 * h * bpp), width |-> 8 * p, bpp |-> bpp,
      h |-> h, v |-> v, mcu_len |-> 64 * (h * v + bpp - 1),
      out_len |-> (h * v) * (64 * (h * v + bpp - 1)) * CeilDiv(p, h)] :
        h \in Samp, v \in Samp, bpp \in {3},
        p \in 1 .. MaxRowBlocks, i \in 0 .. MaxRowBlocks - 1}
    \cup {[xoffset |-> i * 8, width |-> 8 * p, bpp |-> 1,
           h |-> 1, v |-> 1, mcu_len |-> 64, out_len |-> 64 * p] :
            p \in 1 .. MaxRowBlocks, i \in 0 .. MaxRowBlocks - 1}

InitMcuRow ==
    /\ self \in {a \in McuRowCalls : a.xoffset < a.width * a.bpp}
    /\ loc = [by |-> 0, bx |-> 0, k |-> 0, y |-> 0, x |-> 0]
    /\ out = << >>
    /\ pc = "pixel"
    /\ call = "read_scanline"
    /\ result = "none"
    /\ sig = "soi"
    /\ eof = FALSE
    /\ ev = Event("upsample_mcu", 0)

SpecMcuRow == InitMcuRow /\ [][NextUpsample]_vars

(***************************************************************************)
(* The end of decode_mcu on large frames: mcucount += 1, then the decision *)
(* of read_restart, in u16 arithmetic.  In this specification self is the  *)
(* decoder late in a scan, loc.n the number of MCUs decoded so far as an   *)
(* unbounded integer, and out whether read_restart looks for a marker.  A  *)
(* build with overflow checks panics where a u16 overflows; a build        *)
(* without them wraps.                                                     *)
(***************************************************************************)
\* Whether width + 7, height + 7 or w * h of read_restart overflow a u16.
restart_overflows(s) ==
    LET w == U16(s.width + 7) \div U16(U8(s.hmax * 8))
        h == U16(s.height + 7) \div U16(U8(s.vmax * 8))
    IN \/ s.width + 7 >= Pow2(16)
       \/ s.height + 7 >= Pow2(16)
       \/ w * h >= Pow2(16)

\* self.mcucount += 1
WideCount ==
    /\ pc = "count"
    /\ \E checked \in BOOLEAN :
         IF checked /\ self.mcucount + 1 >= Pow2(16)
         THEN Outcome("Panic", "idle") /\ UNCHANGED <<self, loc>>
         ELSE /\ self' = [self EXCEPT !.mcucount = U16(@ + 1)]
              /\ loc' = [loc EXCEPT !.n = @ + 1]
              /\ Outcome("Ok", "restart")
    /\ ev' = Event("mcu", 0)
    /\ UNCHANGED <<call, sig, out>>

\* read_restart up to its condition
WideRestart ==
    /\ pc = "restart"
    /\ \E checked \in BOOLEAN :
         IF checked /\ restart_overflows(self)
         THEN Outcome("Panic", "idle") /\ UNCHANGED out
         ELSE /\ out' = RestartDue(self)
              /\ Outcome("Ok", "idle")
    /\ ev' = Event("restart", 0)
    /\ UNCHANGED <<self, call, sig, loc>>

WideSizes == {8, Pow2(12), Pow2(16) - 8, Pow2(16) - 7, Pow2(16) - 1}

WideCounts == {0, 1, 2, Pow2(16) - 2, Pow2(16) - 1}

WideIntervals == {0, 1, 3}

InitWide ==
    /\ \E w \in WideSizes, h \in WideSizes, n \in WideCounts, i \in WideIntervals :
         /\ self = [JPEGDecoderNew EXCEPT !.width = w, !.height = h,
                                          !.num_components = 1,
                                          !.hmax = 1, !.vmax = 1,
                                          !.interval = i, !.mcucount = n,
                                          !.state = "HaveFirstScan"]
         /\ loc = [n |-> n]
    /\ out = FALSE
    /\ pc = "count"
    /\ call = "read_scanline"
    /\ result = "none"
    /\ sig = "soi"
    /\ eof = FALSE
    /\ ev = Event("block", 0)

NextWide == WideCount \/ WideRestart

SpecWide == InitWide /\ [][NextWide]_vars

(***************************************************************************)
(* The BMP encoder (src/bmp/encoder.rs) and the decoder on what it wrote.  *)
(* row_size is computed in f32: a conversion, a product or a sum of        *)
(* integers is the exact value rounded to 24 significant bits, ties to     *)
(* even; the division by 32.0 is exact.  Images up to MaxBmpCols wide are  *)
(* decoded back; wider ones are encoded only.                              *)
(***************************************************************************)
RECURSIVE Ulp(_)
Ulp(n) == IF n < Pow2(24) THEN 1 ELSE 2 * Ulp(n \div 2)

F32Round(n) ==
    LET q == Ulp(n)
        lo == (n \div q) * q
        rem == n - lo
    IN IF 2 * rem < q THEN lo
       ELSE IF 2 * rem > q THEN lo + q
       ELSE IF (lo \div q) % 2 = 0 THEN lo
       ELSE lo + q

\* ((bpp as f32 * width as f32 + 31.0) / 32.0).floor() as u32 * 4
bmp_row_size(width) ==
    (F32Round(F32Round(24 * F32Round(width)) + 31) \div 32) * 4

\* encode: the header fields write_header writes and the length of what
\* write_header and write_data write.
bmp_encode(img) ==
    LET header_size == 2 + 12 + 40
        data_size == bmp_row_size(img.w) * img.h
    IN [magic |-> TRUE, file_size |-> header_size + data_size,
        pixel_offset |-> header_size, header_size |-> 40,
        width |-> img.w, height |-> img.h, bits_per_pixel |-> 24,
        compression |-> 0, bitmap_size |-> data_size,
        len |-> header_size + img.h * (3 * img.w + (img.w % 4)),
        image |-> img]

BmpEncode ==
    /\ pc = "encode"
    /\ loc' = [loc EXCEPT !.file = bmp_encode(loc.image)]
    /\ pc' = "idle"
    /\ ev' = Event("encode", 0)
    /\ UNCHANGED <<self, call, result, sig, eof, out>>

SmallImages ==
    {[w |-> w, h |-> h, seed |-> s] :
        w \in 1 .. MaxBmpCols, h \in 1 .. MaxBmpRows, s \in {0, 1}}

WideImages ==
    {[w |-> Pow2(k) + d, h |-> h, seed |-> 0] :
        k \in 19 .. 19 + MaxBmpRows, d \in 0 .. MaxBmpCols, h \in 1 .. MaxBmpRows}

InitTrip ==
    /\ self = BMPDecoderNew
    /\ \E img \in SmallImages \cup WideImages :
         loc = [image |-> img, file |-> [len |-> 0], pos |-> 0, px |-> <<0, 0, 0>>,
                row |-> 0, col |-> 0]
    /\ out = << >>
    /\ pc = "encode"
    /\ call = "read_image"
    /\ result = "none"
    /\ sig = "unread"
    /\ eof = FALSE
    /\ ev = Event("new", 0)

NextTrip ==
    \/ BmpEncode
    \/ (loc.image \in SmallImages /\ BmpReadImage)
    \/ BmpPixel
    \/ BmpPadding

SpecTrip == InitTrip /\ [][NextTrip]_vars

(***************************************************************************)
(* The GIF decoder (gif/decoder.rs): read_image up to its first block.     *)
(* A stream is told by what its bytes decode to and by its length: 6 bytes *)
(* of signature and version, 7 of logical screen descriptor, 3 for each    *)
(* entry of the global color table, then the first block.  An Option is a  *)
(* sequence: << >> for None, <<v>> for Some(v).  The streams of the model  *)
(* end at, or go on after the global table with, a trailer, a block of     *)
(* unknown kind or the descriptor of an interlaced image; extensions and   *)
(* LZW-coded frame data are not in the model.                              *)
(***************************************************************************)
GIFDecoderNew ==
    [state |-> "Start", width |-> 0, height |-> 0, global_table |-> << >>,
     global_background_index |-> << >>, delay |-> 0,
     local_transparent_index |-> << >>]

\* The bytes before the global color table.
GifTableStart == 13

\* The bytes of an image descriptor after its block byte.
GifImageDescriptor == 9

gif_read_header(s, f) ==
    IF s.state # "Start" THEN Ret(s, "Ok")
    ELSE IF f.len < 3 THEN Ret(s, "ImageEnd")
    ELSE IF f.len < 6 THEN Ret(s, "ImageEnd")
    ELSE IF ~f.signature THEN Ret(s, "FormatError")
    ELSE IF f.version \notin {"87a", "89a"} THEN Ret(s, "UnsupportedError")
    ELSE Ret([s EXCEPT !.state = "HaveHeader"], "Ok")

\* let entries = if global_table { 1 << ((fields & 0b111) + 1) } else { 0 };
gif_entries(f) == IF f.table THEN Pow2(f.size + 1) ELSE 0

\* What take(3 * entries).read_to_end(&mut buf) leaves in buf: the bytes
\* asked for, or the bytes the stream still has.
gif_buf_len(f) ==
    LET want == 3 * gif_entries(f)
        left == f.len - GifTableStart
    IN IF left < want THEN left ELSE want

\* read_logical_screen_descriptor up to the loop over buf.chunks(3).
gif_screen_fields(s, f) ==
    LET r == gif_read_header(s, f)
        w == [r.self EXCEPT !.width = f.width]
        h == [w EXCEPT !.height = f.height]
        b == [h EXCEPT !.global_background_index = IF f.table THEN <<f.b>> ELSE @]
    IN IF r.res # "Ok" \/ r.self.state # "HaveHeader" THEN r
       ELSE IF f.len < 8 THEN Ret(r.self, "IoError")
       ELSE IF f.len < 10 THEN Ret(w, "IoError")
       ELSE IF f.len < 11 THEN Ret(h, "IoError")
       ELSE IF f.len < 12 THEN Ret(h, "IoError")
       ELSE IF f.len < GifTableStart THEN Ret(b, "IoError")
       ELSE Ret(b, "Ok")

\* One turn of `for rgb in buf.chunks(3)`: the chunk that starts at byte
\* 3 * k of buf is pushed as (rgb[0], rgb[1], rgb[2]); the last chunk of a
\* buf whose length is not a multiple of 3 is shorter, and rgb[1] or rgb[2]
\* is out of its bounds.
gif_push_entry(s, f, k) ==
    LET p == GifTableStart + 3 * k
    IN IF gif_buf_len(f) - 3 * k < 3 THEN Ret(s, "Panic")
       ELSE Ret([s EXCEPT !.global_table =
                     Append(@, <<ByteAt(p), ByteAt(p + 1), ByteAt(p + 2)>>)], "Ok")

\* let background = if let Some(idx) = self.global_background_index {
\*     let (r, g, b) = self.global_table[idx as usize]; Rgba([r, g, b, 255])
\* } else { Rgba([0, 0, 0, 255]) };
\* The Vec is indexed without a check: an index at or past its length
\* panics.  The first element of a sequence is element 1.
gif_background(s) ==
    IF s.global_background_index # << >>
    THEN LET idx == s.global_background_index[1]
         IN IF idx >= Len(s.global_table) THEN Ret(<< >>, "Panic")
            ELSE Ret(s.global_table[idx + 1] \o <<255>>, "Ok")
    ELSE Ret(<<0, 0, 0, 255>>, "Ok")

\* Where read_image stands once k chunks of buf have been pushed.
GifTablePc(f, k) == IF 3 * k < gif_buf_len(f) THEN "table" ELSE "background"

\* The state is HaveLSD once the loop over the chunks is over.
GifAfterTable(s, f, k) ==
    IF GifTablePc(f, k) = "background" THEN [s EXCEPT !.state = "HaveLSD"] ELSE s

\* read_image: self.dimensions(), that is read_logical_screen_descriptor,
\* up to the loop over the chunks.
GifReadImage ==
    /\ pc = "idle"
    /\ result = "none"
    /\ LET r == gif_screen_fields(self, loc.file)
       IN /\ self' = IF r.res = "Ok" THEN GifAfterTable(r.self, loc.file, 0) ELSE r.self
          /\ Outcome(r.res, GifTablePc(loc.file, 0))
    /\ ev' = Event("read_image", 0)
    /\ UNCHANGED <<call, loc, sig, out>>

\* self.global_table.push((rgb[0], rgb[1], rgb[2]));
GifTableEntry ==
    /\ pc = "table"
    /\ LET r == gif_push_entry(self, loc.file, loc.k)
       IN /\ self' = IF r.res = "Ok" THEN GifAfterTable(r.self, loc.file, loc.k + 1)
                     ELSE r.self
          /\ Outcome(r.res, GifTablePc(loc.file, loc.k + 1))
    /\ loc' = [loc EXCEPT !.k = @ + 1, !.pos = GifTableStart + 3 * (loc.k + 1)]
    /\ ev' = Event("entry", loc.k)
    /\ UNCHANGED <<call, sig, out>>

\* The background color and the canvas filled with it:
\* ImageBuffer::from_pixel(width, height, background).
GifBackground ==
    /\ pc = "background"
    /\ LET r == gif_background(self)
       IN /\ out' = [background |-> r.self,
                     canvas |-> [i \in 1 .. self.width * self.height |-> r.self]]
          /\ Outcome(r.res, "frame")
    /\ loc' = [loc EXCEPT !.pos = GifTableStart + gif_buf_len(loc.file)]
    /\ ev' = Event("background", Len(self.global_table))
    /\ UNCHANGED <<self, call, sig>>

\* let frame = try!(self.next_frame()): the block byte, then for a trailer
\* Ok(None), which read_image turns into ImageEnd, for an unknown block
\* UnsupportedError, and for an image its descriptor, which is refused when
\* it is interlaced.
GifNextFrame ==
    /\ pc = "frame"
    /\ LET f == loc.file
           left == f.len - loc.pos
       IN Outcome(IF left < 1 THEN "IoError"
                  ELSE IF f.block = "Trailer" THEN "ImageEnd"
                  ELSE IF f.block = "Unknown" THEN "UnsupportedError"
                  ELSE IF left < 1 + GifImageDescriptor THEN "IoError"
                  ELSE "UnsupportedError", "idle")
    /\ ev' = Event("next_frame", 0)
    /\ UNCHANGED <<self, call, loc, sig, out>>

GifTableBits == 0 .. MaxGifTableBits

GifIndices == 0 .. MaxGifIndex

GifWidths == 1 .. MaxGifCols

GifVersions == {"87a", "89a", "88a"}

GifBlocks == {"Trailer", "Unknown", "Image"}

\* The bytes of a whole stream: headers, global table, first block.
GifFullLen(table, size, block) ==
    GifTableStart + (IF table THEN 3 * Pow2(size + 1) ELSE 0)
        + (IF block = "Image" THEN 1 + GifImageDescriptor ELSE 1)

\* Streams whole or cut short at any byte.
GifFiles ==
    UNION {{[signature |-> g, version |-> v, width |-> w, height |-> 1,
             table |-> t, size |-> z, b |-> b, block |-> k, len |-> n] :
               n \in 0 .. GifFullLen(t, z, k)} :
             g \in BOOLEAN, v \in GifVersions, w \in GifWidths, t \in BOOLEAN,
             z \in GifTableBits, b \in GifIndices, k \in GifBlocks}

InitGif ==
    /\ self = GIFDecoderNew
    /\ \E f \in GifFiles : loc = [file |-> f, pos |-> 0, k |-> 0]
    /\ out = [background |-> << >>, canvas |-> << >>]
    /\ pc = "idle"
    /\ call = "read_image"
    /\ result = "none"
    /\ sig = "unread"
    /\ eof = FALSE
    /\ ev = Event("new", 0)

NextGif == GifReadImage \/ GifTableEntry \/ GifBackground \/ GifNextFrame

SpecGif == InitGif /\ [][NextGif]_vars

(***************************************************************************)
(* Properties.                                                             *)
(***************************************************************************)

\* C1: when the first two bytes of the stream are not 0xFF 0xD8 and the
\* stream goes on, the call that reads the metadata returns FormatError; no
\* segment changes the decoder before SOI has been seen.
C1_SignatureRequired ==
    /\ (sig = "bad" /\ pc = "idle" /\ ~eof) => result = "FormatError"
    /\ sig # "soi" => self = JPEGDecoderNew

\* C2: the step that meets SOF2 ends the call with UnsupportedError, and by
\* then no MCU has been decoded and no output has been written.
C2_ProgressiveUnsupported ==
    ev.op = "SOF2" =>
        /\ pc = "idle"
        /\ result = "UnsupportedError"
        /\ self.mcucount = 0
        /\ ~out.mcu_row
        /\ ~out.buf

\* SOF2 met after a baseline frame header that allocated the buffers.
C2_Witness ==
    /\ ev.op = "SOF2"
    /\ result = "UnsupportedError"
    /\ self.state = "HaveFirstFrame"
    /\ self.mcu_row > 0

\* The DC predictors, by component id.
Preds(s) == [k \in DOMAIN s.components |-> s.components[k].dc_pred]

\* The number of MCUs of the frame.
FrameMcus(s) == CeilDiv(s.width, 8 * s.hmax) * CeilDiv(s.height, 8 * s.vmax)

\* C3: after each decoded MCU (mcucount already incremented), a restart
\* marker is looked for exactly when the interval is nonzero, mcucount is a
\* multiple of it and mcucount is below ceil(width / 8 hmax) * ceil(height /
\* 8 vmax).
C3_RestartAtInterval ==
    pc = "endmcu" =>
        LET s1 == [self EXCEPT !.mcucount = U16(@ + 1)]
        IN RestartDue(s1) <=> /\ s1.interval # 0
                              /\ s1.mcucount % s1.interval = 0
                              /\ s1.mcucount < FrameMcus(s1)

\* C4: when a restart marker has been accepted the bit reader is cleared and
\* every DC predictor is 0; every block decodes to the predictor of its
\* component plus its coded difference, so the first block after the
\* boundary decodes to its own difference; the predictors are 0 at the scan
\* start and change only by a decoded block or an accepted restart marker.
C4_RestartResetsPrediction ==
    /\ [](ev.op \in {"restart", "SOS"} =>
            /\ self.h = [bits |-> 0, num_bits |-> 0, end |-> FALSE, marker |-> 0]
            /\ \A k \in DOMAIN self.components : Preds(self)[k] = 0)
    /\ [][(pc = "block" /\ ev'.op = "block" /\ result' = "none") =>
            LET id == self.scan_components[loc.ci]
            IN /\ loc'.pred = ev'.arg + (IF loc.bi = 0 THEN Preds(self)[id] ELSE loc.pred)
               /\ ev.op = "restart" => loc'.pred = ev'.arg
               /\ \A k \in DOMAIN self.components :
                    Preds(self')[k] # Preds(self)[k] =>
                        (k = id /\ Preds(self')[k] = loc'.pred)]_vars
    /\ [][(self.state = "HaveFirstScan" /\ Preds(self') # Preds(self)) =>
            ev'.op \in {"block", "restart"}]_vars

\* The first block after the second restart marker of a scan with interval 2
\* has decoded to its own difference 1.
C4_Witness ==
    /\ ev = [op |-> "block", arg |-> 1, aux |-> 1]
    /\ loc.pred = 1
    /\ loc.i = 1
    /\ self.interval = 2
    /\ self.mcucount = 4
    /\ out.restarts = 2

\* C5: the expected restart marker is within RST0..RST7 and is RST(k mod 8)
\* after k accepted markers; the marker accepted is the expected one; a
\* marker found that differs from the expected one gives FormatError and
\* leaves the expected id and the DC predictors as they were.
C5_RestartCycle ==
    /\ [](/\ RST0 <= self.expected_rst /\ self.expected_rst <= RST7
          /\ self.expected_rst = RST0 + (out.restarts % 8))
    /\ [][out'.restarts # out.restarts =>
            /\ out'.restarts = out.restarts + 1
            /\ ev'.arg = RST0 + (out.restarts % 8)]_vars
    /\ [][(pc = "endmcu" /\ ev'.arg # 0 /\ ev'.arg # self.expected_rst) =>
            /\ result' = "FormatError"
            /\ self'.expected_rst = self.expected_rst
            /\ Preds(self') = Preds(self)
            /\ out'.restarts = out.restarts]_vars

\* The ninth restart marker, RST0 again, has been accepted.
C5_Witness ==
    /\ ev.op = "restart"
    /\ ev.arg = RST0
    /\ out.restarts = 9
    /\ self.expected_rst = RST0 + 1

\* C6: when find_restart_marker scans the stream and meets a marker that is
\* no restart marker before any restart marker, the call fails with
\* FormatError.
C6_NoMarkerSkipped ==
    (ev.op \in {"mcu", "restart"} /\ ev.aux # 0) => result = "FormatError"

\* C7: mcucount never exceeds the number of MCUs of the frame.
C7_McuCountBounded ==
    self.state = "HaveFirstScan" => self.mcucount <= FrameMcus(self)

Rank(st) ==
    CASE st = "Start" -> 0
      [] st = "HaveSOI" -> 1
      [] st = "HaveFirstFrame" -> 2
      [] st = "HaveFirstScan" -> 3

\* C8: a step of the metadata loop leaves the parse state or moves it one
\* step forward, to HaveSOI on SOI, to HaveFirstFrame on SOF0, to
\* HaveFirstScan on SOS; table, DRI, APPn, COM and TEM segments leave it.
C8_StateForwardOnly ==
    [][LET a == Rank(self.state)
           b == Rank(self'.state)
       IN /\ b \in {a, a + 1}
          /\ b = a + 1 => ev'.op = (CASE b = 1 -> "SOI" [] b = 2 -> "SOF0" [] b = 3 -> "SOS")
          /\ ev'.op \in {"DHT", "DQT", "DRI", "APP", "TEM"} => b = a]_vars

\* The frame as SOF0 defines it.
Frame(s) ==
    [width |-> s.width, height |-> s.height, num_components |-> s.num_components,
     components |-> [k \in DOMAIN s.components |->
                       [id |-> s.components[k].id, h |-> s.components[k].h,
                        v |-> s.components[k].v, tq |-> s.components[k].tq]],
     padded_width |-> s.padded_width, mcu |-> s.mcu, mcu_row |-> s.mcu_row]

\* C9: once a frame header has been parsed, no segment that the metadata
\* loop reads and accepts before SOS changes the frame.
C9_FirstFrameDefines ==
    [][(self.state = "HaveFirstFrame" /\ pc = "metadata" /\ pc' = "metadata") =>
            Frame(self') = Frame(self)]_vars

\* C10: the parse state becomes HaveFirstFrame only by a SOF0 header with
\* precision 8, nonzero width and height and 1 or 3 components; a header with
\* another precision gives UnsupportedError, one with a zero dimension
\* DimensionError, one with another component count UnsupportedError, and
\* these create no component record and no buffer.
C10_FrameHeaderChecked ==
    /\ []((ev.op = "SOF0" /\ pc = "metadata") =>
            /\ self.state = "HaveFirstFrame"
            /\ ev.arg = 8
            /\ self.width > 0 /\ self.height > 0
            /\ self.num_components \in {1, 3})
    /\ [][(self'.state = "HaveFirstFrame" /\ self.state # "HaveFirstFrame") =>
            (ev'.op = "SOF0" /\ pc' = "metadata")]_vars
    /\ [][(pc = "metadata" /\ ev'.op = "SOF0" /\ ev'.arg # 0 /\ result' # "IoError") =>
            LET bad == IF ev'.arg # 8 THEN "UnsupportedError"
                       ELSE IF self'.width = 0 \/ self'.height = 0 THEN "DimensionError"
                       ELSE IF self'.num_components \notin {1, 3} THEN "UnsupportedError"
                       ELSE "Ok"
            IN bad # "Ok" =>
                 /\ result' = bad
                 /\ self'.components = self.components
                 /\ self'.mcu = self.mcu /\ self'.mcu_row = self.mcu_row
                 /\ self'.state = self.state]_vars

\* A three-component frame header has been accepted and the buffers made.
C10_Witness ==
    /\ ev = [op |-> "SOF0", arg |-> 8, aux |-> 0]
    /\ pc = "metadata"
    /\ self.state = "HaveFirstFrame"
    /\ self.num_components = 3
    /\ self.mcu_row > 0

\* The components of the scan that the frame declares.
ScanComponents(s) ==
    {s.components[s.scan_components[k]] :
        k \in {j \in 1 .. Len(s.scan_components) :
                 s.scan_components[j] \in DOMAIN s.components}}

\* C11: every quantization table written is one of the slots 0..3, a DQT
\* record with a precision flag or a slot above 3 gives FormatError, and
\* when blocks are decoded the quantization selector of every component of
\* the scan is at most 3.
C11_QuantIdInRange ==
    /\ self.qtables \subseteq 0 .. 3
    /\ ev.op = "DQT" => result \in {"none", "FormatError", "IoError"}
    /\ pc = "block" => \A c \in ScanComponents(self) : c.tq <= 3

\* C12: the Huffman tables written are the slots 0 and 1 of each class, a
\* DHT segment ends in a result and not in a panic, and when blocks are
\* decoded the DC and AC selectors of every component of the scan are at
\* most 1.
C12_HuffIdInRange ==
    /\ self.dctables \subseteq {0, 1} /\ self.actables \subseteq {0, 1}
    /\ ev.op = "DHT" => result # "Panic"
    /\ pc = "block" => \A c \in ScanComponents(self) : c.dc_table <= 1 /\ c.ac_table <= 1

\* Whether the declared length of a segment fits its contents: at least 2,
\* and for DQT and DHT a whole number of records (of 65 and of 18 bytes in
\* the segments of SizedQuant and SizedHuff).
Consistent(op, len) ==
    /\ len >= 2
    /\ op = "DQT" => (len - 2) % 65 = 0
    /\ op = "DHT" => (len - 2) % 18 = 0

\* C13: a segment with an inconsistent length gives FormatError, no handler
\* reads past the declared length (past the length field itself when the
\* length is below 2), and a consistent segment that is accepted is read to
\* exactly its length.
C13_SegmentLengthKept ==
    ev.op \in {"DQT", "DHT", "APP"} =>
        /\ ev.aux <= Max2(ev.arg, 2)
        /\ ~Consistent(ev.op, ev.arg) => result = "FormatError"
        /\ (Consistent(ev.op, ev.arg) /\ result = "none") => ev.aux = ev.arg

\* C14: the step of the metadata loop that meets DNL or a marker it does not
\* recognize ends the call with UnsupportedError.
C14_UnknownMarkerUnsupported ==
    ev.op \in {"DNL", "unknown"} => (pc = "idle" /\ result = "UnsupportedError")

\* C15: in a call of read_scanline the counter of decoded rows and the row
\* cursor change only in the step that ends the call with Ok, the counter
\* by exactly 1, and the value returned (self.decoded_rows) is the new
\* counter; a call that fails leaves both as they were.  With the counter 0
\* in a new decoder, the n-th successful call returns n.
C15_ScanlineCounts ==
    /\ [][(call' = "read_scanline" /\
           (self'.decoded_rows # self.decoded_rows \/ self'.row_count # self.row_count)) =>
            /\ pc = "copy" /\ pc' = "idle" /\ result' = "Ok"
            /\ self'.decoded_rows = self.decoded_rows + 1]_vars
    /\ [][(call' = "read_scanline" /\ pc # "idle" /\ pc' = "idle" /\ result' = "Ok") =>
            self'.decoded_rows = self.decoded_rows + 1]_vars
    /\ [](self.decoded_rows = 0 => ~out.buf)

\* Eight calls of read_scanline have returned 1 to 8, and the ninth has
\* failed at the end of the stream and left the counter at 8.
C15_Witness ==
    /\ call = "read_scanline"
    /\ pc = "idle"
    /\ result = "IoError"
    /\ self.decoded_rows = 8
    /\ self.row_count = 0

\* C16: read_image copies height rows of width * channels bytes; the row
\* copied as row y starts at row y mod (8 vmax) of the MCU-row buffer, whose
\* rows are padded_width * channels bytes long, when y div (8 vmax) + 1 rows
\* of MCUs have been decoded; when read_image returns, the counter of
\* decoded rows is the height.
C16_ImageRows ==
    /\ []((call = "read_image" /\ pc = "idle" /\ result = "Ok") =>
            /\ self.decoded_rows = self.height
            /\ loc.chunks = 0)
    /\ [][(call = "read_image" /\ pc = "copy" /\ result' \in {"none", "Ok"}) =>
            LET y == self.decoded_rows
                rows == 8 * self.vmax
            IN /\ y < self.height
               /\ loc.chunks = self.height - y
               /\ ev'.aux = self.width * self.num_components
               /\ ev'.arg = (y % rows) * (self.padded_width * self.num_components)
               /\ ev'.arg + ev'.aux <= self.mcu_row
               /\ self.mcucount = ((y \div rows) + 1) * CeilDiv(self.padded_width, 8 * self.hmax)
               /\ out'.buf
               /\ self'.decoded_rows = y + 1]_vars

\* read_image has returned the 13 rows of a three-component frame 13 wide
\* with 2x1 luma sampling, from two rows of MCUs.
C16_Witness ==
    /\ call = "read_image"
    /\ pc = "idle"
    /\ result = "Ok"
    /\ self.height = 13 /\ self.width = 13
    /\ self.num_components = 3
    /\ self.hmax = 2 /\ self.vmax = 1
    /\ self.decoded_rows = 13
    /\ self.mcucount = 2
    /\ ev = [op |-> "copy", arg |-> 4 * 48, aux |-> 39]

\* C17: a facade call enters read_metadata exactly when the state is Start;
\* read_metadata returns Ok only in state HaveFirstScan; from then on no
\* facade call is in read_metadata, the state stays HaveFirstScan, and the
\* values dimensions, colortype and row_len return never change: (width,
\* height), Gray(8) iff there is one component else RGB(8), and
\* width * component count.
C17_MetadataOnce ==
    /\ [][(pc = "idle" /\ ev'.op = "call") =>
            ((pc' = "metadata") <=> (self.state = "Start"))]_vars
    /\ [][(pc = "metadata" /\ pc' \notin {"metadata", "idle", "panicked"}) =>
            self'.state = "HaveFirstScan"]_vars
    /\ [](self.state = "HaveFirstScan" => pc # "metadata")
    /\ [][self.state = "HaveFirstScan" =>
            /\ self'.state = "HaveFirstScan"
            /\ sig' = sig
            /\ dimensions(self') = dimensions(self)
            /\ colortype(self') = colortype(self)
            /\ row_len(self') = row_len(self)]_vars
    /\ [](/\ dimensions(self) = <<self.width, self.height>>
          /\ (colortype(self) = "Gray8") <=> (self.num_components = 1)
          /\ colortype(self) \in {"Gray8", "RGB8"}
          /\ row_len(self) = self.width * self.num_components)

\* After rows of a three-component image have been read, dimensions is
\* called and returns at once.
C17_Witness ==
    /\ self.state = "HaveFirstScan"
    /\ call = "dimensions"
    /\ pc = "idle"
    /\ result = "Ok"
    /\ ev.op = "call"
    /\ self.decoded_rows = 2
    /\ colortype(self) = "RGB8"
    /\ row_len(self) = 24

\* The file holds every row of its pixel data, padding included.
BmpWhole(f) == f.len >= f.pixel_offset + BmpDataLen(f.width, f.height)

\* C18: when BMPDecoder::read_image returns the pixels of a file that holds
\* all its rows, it returns 3 * w * h bytes, and pixel (x, y) is the three
\* bytes stored at pixel offset + y * (3 w + w mod 4) + 3 x, in reverse order.
C18_BmpPixels ==
    (pc = "idle" /\ result = "Ok" /\ BmpWhole(loc.file)) =>
        LET f == loc.file
            w == Abs(f.width)
            h == Abs(f.height)
        IN /\ Len(out) = 3 * w * h
           /\ \A y \in 0 .. h - 1, x \in 0 .. w - 1 :
                LET p == f.pixel_offset + y * (3 * w + (w % 4)) + 3 * x
                    i == 3 * (y * w + x)
                IN /\ out[i + 1] = ByteAt(p + 2)
                   /\ out[i + 2] = ByteAt(p + 1)
                   /\ out[i + 3] = ByteAt(p)

\* The two rows of a bitmap three pixels wide, stored with three bytes of
\* padding each, have been returned.
C18_Witness ==
    /\ pc = "idle"
    /\ result = "Ok"
    /\ ev.op = "padding"
    /\ BmpWhole(loc.file)
    /\ loc.file.width = 3
    /\ loc.file.height = -2
    /\ Len(out) = 18
    /\ loc.pos = loc.file.pixel_offset + 24

\* C19: in a three-component MCU with h x v luma blocks, the pixel at
\* MCU-local (X, Y) is made from the luma sample at (X, Y) and from the Cb
\* and Cr samples at (X div h, Y div v) of the chroma blocks.
C19_ChromaReplicated ==
    self.mcu_len # 64 =>
        \A off \in DOMAIN out :
            LET row == self.width * self.bpp
                X == ((off % row) - self.xoffset) \div self.bpp
                Y == off \div row
                block == (Y \div 8) * self.h + (X \div 8)
                chroma == (X \div self.h) + (Y \div self.v) * 8
            IN /\ out[off].luma = block * 64 + (X % 8) + (Y % 8) * 8
               /\ out[off].cb = self.h * self.v * 64 + chroma
               /\ out[off].cr = self.h * self.v * 64 + 64 + chroma

\* C20: whatever AC symbols are decoded, decode_block writes coefficients
\* at zig-zag positions 1 .. 63 only, and never indexes outside the 64
\* entries of tmp, qtable and UNZIGZAG.
C20_AcInBounds ==
    /\ pc # "panicked"
    /\ out.pos \in 0 .. 63
    /\ out.idx \in 0 .. 63
    /\ pc = "ac" => loc.k < 63

\* C21: an AC symbol (r, s) that is handled without error is handled so:
\* s = 0 and r = 15 skips 16 positions, writes nothing and goes on while
\* fewer than 63 positions are consumed; s = 0 and r # 15 ends the block
\* and writes nothing; otherwise the value extend(bits, s) times the
\* quantization entry at zig-zag position k + r + 1 is stored at natural
\* index UNZIGZAG[k + r + 1], a position beyond every one written before.
\* Nothing is written once the loop is over, and UNZIGZAG is a bijection
\* on 0 .. 63.
C21_AcSymbolRule ==
    /\ [][(pc = "ac" /\ result' \in {"none", "Ok"}) =>
            LET r == ev'.arg
                s == ev'.aux
            IN /\ (s = 0 /\ r = 15) =>
                    /\ loc'.k = loc.k + 16
                    /\ out' = out
                    /\ (pc' = "ac") <=> (loc'.k < 63)
               /\ (s = 0 /\ r # 15) =>
                    /\ loc'.k = loc.k
                    /\ out' = out
                    /\ pc' = "idct"
               /\ s # 0 =>
                    /\ out'.pos = loc.k + r + 1
                    /\ out'.pos > out.pos
                    /\ out'.pos \in 1 .. 63
                    /\ out'.idx = UNZIGZAG[out'.pos + 1]
                    /\ out'.val = (IF out'.bits >= Pow2(s - 1) THEN out'.bits
                                   ELSE out'.bits - (Pow2(s) - 1)) * AcQuant(out'.pos)
                    /\ loc'.k = out'.pos
                    /\ (pc' = "ac") <=> (loc'.k < 63)]_vars
    /\ [][pc # "ac" => out' = out]_vars
    /\ [](/\ Len(UNZIGZAG) = 64
          /\ {UNZIGZAG[i] : i \in 1 .. 64} = 0 .. 63)

\* After a ZRL, the symbol (2, 1) with bit 0 has stored -1 times the
\* quantization entry of zig-zag position 19 at natural index 33.
C21_Witness ==
    /\ pc = "ac"
    /\ ev = [op |-> "ac", arg |-> 2, aux |-> 1]
    /\ loc.k = 19
    /\ out = [pos |-> 19, idx |-> 33, bits |-> 0, val |-> 0 - AcQuant(19)]

C23_ExtendLaw ==
    pc # "extend" =>
        /\ result = "Ok"
        /\ extend_shift_in_range(self.t)
        /\ self.t = 0 => out = 0
        /\ self.t >= 1 =>
             out = IF self.v >= Pow2(self.t - 1) THEN self.v
                   ELSE self.v - (Pow2(self.t) - 1)

\* C24: once the header of a single-component frame is read, whatever
\* sampling factors it declares, the component has h = v = 1, hmax and vmax
\* are 1, the MCU buffer holds 64 samples, an MCU is one block, the MCU-row
\* buffer holds at least 8 rows of padded_width samples, and decoding does
\* not run outside it.
C24_GrayFrameShape ==
    (self.state \in {"HaveFirstFrame", "HaveFirstScan"} /\ self.num_components = 1) =>
        /\ \A k \in DOMAIN self.components :
             self.components[k].h = 1 /\ self.components[k].v = 1
        /\ self.hmax = 1 /\ self.vmax = 1
        /\ self.mcu = 64
        /\ pc = "endmcu" => loc.i = 1
        /\ self.mcu_row >= 8 * self.padded_width
        /\ pc # "panicked"

C26_McuColumns ==
    \A off \in DOMAIN out :
        LET row == self.width * self.bpp
            k == out[off].luma \div 64
            X == (k % self.h) * 8 + (out[off].luma % 8)
            Y == (k \div self.h) * 8 + ((out[off].luma % 64) \div 8)
        IN /\ off + self.bpp <= self.out_len
           /\ off \div row = Y
           /\ off % row = self.xoffset + X * self.bpp
           /\ self.xoffset + X * self.bpp < row

\* C27: the MCU counter and the quantities of read_restart equal their
\* mathematical values: nothing overflows, the counter is the number of
\* MCUs decoded, and a restart marker is looked for exactly when the
\* interval is nonzero, the number of MCUs decoded is a multiple of it and
\* is below ((width + 7) div 8 hmax) * ((height + 7) div 8 vmax).
C27_NoWraparound ==
    /\ pc # "panicked"
    /\ pc = "restart" => self.mcucount = loc.n
    /\ (pc = "idle" /\ result = "Ok") =>
         (out <=> /\ self.interval # 0
                  /\ loc.n % self.interval = 0
                  /\ loc.n < ((self.width + 7) \div (8 * self.hmax))
                                * ((self.height + 7) \div (8 * self.vmax)))

\* C28: dimensions, colortype and row_len return Ok only when a frame
\* header has been parsed: width > 0, height > 0 and 1 or 3 components.
C28_ValuesAreParsed ==
    (call \in {"dimensions", "colortype", "row_len"} /\ pc = "idle" /\ result = "Ok") =>
        /\ self.width > 0
        /\ self.height > 0
        /\ self.num_components \in {1, 3}
        /\ self.state = "HaveFirstScan"

\* C29: a scan header never panics; one that names a component the frame
\* header did not declare returns an error, and after a scan header that is
\* accepted every id of scan_components is the id of a frame component.
C29_ScanComponentsDeclared ==
    /\ ev.op = "SOS" => result # "Panic"
    /\ self.state = "HaveFirstScan" =>
         \A k \in 1 .. Len(self.scan_components) :
            self.scan_components[k] \in DOMAIN self.components

\* C30: what BMPEncoder::encode writes for an image w wide and h high has
\* pixel offset 54, the first pixel byte at 54, and a data size of
\* (3 w + w mod 4) * h, the number of pixel-data bytes written; BMPDecoder
\* reads from it the dimensions (w, h) and the 3 w h samples of the image
\* in their order.
C30_BmpRoundTrip ==
    /\ pc # "encode" =>
         LET f == loc.file
             img == loc.image
         IN /\ f.pixel_offset = 54
            /\ f.bitmap_size = (3 * img.w + (img.w % 4)) * img.h
            /\ f.bitmap_size = f.len - 54
            /\ f.file_size = f.len
            /\ FileByte(f, 54) = Pix(img, 0, 0, 2)
    /\ (pc = "idle" /\ result = "Ok") =>
         LET img == loc.image
         IN /\ self.width = img.w /\ self.height = img.h
            /\ out = [i \in 1 .. 3 * img.w * img.h |-> (img.seed + i - 1) % 256]

\* The entries of the global color table that the stream holds whole.
GifEntriesRead(f) == gif_buf_len(f) \div 3

\* C31: read_image never indexes the global color table out of range:
\* when a global table of N entries is announced, fewer than N entries are
\* read and the background index is at or past the number of entries read,
\* the step that takes the background color does not panic and leaves the
\* default background (the call may still end with an error afterwards).
C31_BackgroundInRange ==
    (/\ ev.op = "background"
     /\ loc.file.table
     /\ Len(self.global_table) < gif_entries(loc.file)
     /\ loc.file.b >= Len(self.global_table)) =>
        /\ pc # "panicked"
        /\ out.background = <<0, 0, 0, 255>>

====
